---- MODULE Spec2Model ----
(***************************************************************************)
(* A model of the site generator's core pipeline: the Renderer            *)
(* (src/core/renderer.ts) and the Source scanner (src/unnamed/part_002).   *)
(*                                                                         *)
(* Strings whose characters the code inspects (startsWith, endsWith,       *)
(* split, trim, sort) are sequences of one-character strings.  Contents    *)
(* produced by template engines are sequences of tokens: an engine         *)
(* appends its own name to the template it is given, and wraps the         *)
(* `content` value of its data, so that a content value records which      *)
(* engines produced it, in which order and from what.                      *)
(***************************************************************************)
EXTENDS Integers, Sequences, FiniteSets, TLC

\* ------------------------------------------------------------------------
\* Bounds of the model
\* ------------------------------------------------------------------------

\* Most values a generator yields.
MaxYields == 2

\* Longest data.templateEngine string (in characters).
MaxEngineChars == 4

\* Most folders, the root one of them, that the data cascade goes down.
MaxDepth == 2

\* Most calls of addStaticPath, addIgnoredPath and addIgnoreFilter before a
\* build.
MaxCalls == 2

\* Most layout renders of one #renderLayout call that the model follows.
MaxLayoutSteps == 4

\* ------------------------------------------------------------------------
\* State
\* ------------------------------------------------------------------------

\* Renderer.renderPages
VARIABLES
    from,           \* the pages given to renderPages, a sequence of names
    renderOrder,    \* page name -> data.renderOrder: <<>> (unset) or <<n>>
    pc,             \* where renderPages is
    gi,             \* the index of the group the loop handles
    expanded,       \* the generator pages already expanded
    yielded,        \* generator page -> the values it has yielded
    generatedPages, \* generatedPages of the group, a sequence of page ids
    pageObjs,       \* page id -> the Page object
    to,             \* the pages appended to `to`, a sequence of page ids
    renderedPages,  \* the pages awaiting their layout
    pending,        \* the callbacks of the current fan-out not yet finished
    rejection       \* the error renderPages rejected with, if it has

rvars == <<from, renderOrder, pc, gi, expanded, yielded,
           generatedPages, pageObjs, to, renderedPages, pending, rejection>>

\* One call of Renderer.render
VARIABLES
    renderIn,       \* the arguments of the call
    renderPc,       \* "call", "loop", "returned" or "thrown"
    renderEngines,  \* the engines the loop has still to apply
    renderContent   \* the local variable `content`

evars == <<renderIn, renderPc, renderEngines, renderContent>>

\* One call of Renderer.#renderLayout
VARIABLES
    layoutFiles,    \* layout name -> the layout file
    layoutIn,       \* the `layout` of the page the call is for
    layoutSt        \* the local variables of the loop, and where the call is

lvars == <<layoutFiles, layoutIn, layoutSt>>

\* The Source scanner
VARIABLES
    staticPaths,    \* Source.staticPaths: normalized path -> {dest, dirOnly}
    ignored,        \* Source.ignored, a set of paths
    filters,        \* Source.filters, the ignore filters added
    calls,          \* how many add... calls were made
    lastCall,       \* the last call made and whether it threw
    buildFilters,   \* the build filters of the last build
    built           \* what the last build returned: pages and staticFiles,
                    \* and the folders whose data it stored in Source.data

svars == <<staticPaths, ignored, filters, calls, lastCall, buildFilters,
           built>>

\* The data cascade of the Source
VARIABLES
    depth,          \* how many folders deep the walk is
    dirData,        \* the data of the folder the walk is in
    cascadeIn,      \* what the last load was given
    loaded          \* what the last load returned

cvars == <<depth, dirData, cascadeIn, loaded>>

\* The multilanguage plugin
VARIABLES
    allPages,       \* the pages of the site, a sequence of pages
    langFrom,       \* the pages the handler was given, as they were
    langOptions,    \* the options of the plugin
    langPc          \* "beforeRender" or "preprocess": the handler to run;
                    \* "listened", "preprocessed" or "thrown": how it ended

mvars == <<allPages, langFrom, langOptions, langPc>>

\* The processor of the terser plugin
VARIABLES
    terserFiles,    \* the files the processor is given
    terserPc,       \* where processTerser is
    terserCalls,    \* file -> where the call of terser for it is
    terserContent,  \* file -> the content of the page
    terserSaved,    \* the files saveAsset was called for
    terserLog,      \* the files an error was logged for, in order
    terserWarned    \* whether warnUntil was given no files

tvars == <<terserFiles, terserPc, terserCalls, terserContent, terserSaved,
           terserLog, terserWarned>>

vars == <<rvars, evars, lvars, svars, cvars, mvars, tvars>>

\* What the steps of renderPages leave alone, and what those of a call of
\* render or of #renderLayout do.
notRenderPages == <<evars, lvars, svars, cvars, mvars, tvars>>
notRender == <<rvars, lvars, svars, cvars, mvars, tvars>>
notRenderLayout == <<rvars, evars, svars, cvars, mvars, tvars>>
notSource == <<rvars, evars, lvars, cvars, mvars, tvars>>
notCascade == <<rvars, evars, lvars, svars, mvars, tvars>>
notLang == <<rvars, evars, lvars, svars, cvars, tvars>>
notTerser == <<rvars, evars, lvars, svars, cvars, mvars>>

\* ------------------------------------------------------------------------
\* Strings
\* ------------------------------------------------------------------------

\* s.startsWith(p)
StartsWith(s, p) ==
    /\ Len(p) <= Len(s)
    /\ SubSeq(s, 1, Len(p)) = p

\* s.endsWith(p)
EndsWith(s, p) ==
    /\ Len(p) <= Len(s)
    /\ SubSeq(s, Len(s) - Len(p) + 1, Len(s)) = p

\* The UTF-16 code unit of the characters the model sorts.
CharCode(c) ==
    CASE c = "-" -> 45
      [] c = "0" -> 48
      [] c = "1" -> 49
      [] c = "2" -> 50
      [] c = "3" -> 51
      [] c = "4" -> 52
      [] c = "5" -> 53
      [] c = "6" -> 54
      [] c = "7" -> 55
      [] c = "8" -> 56
      [] c = "9" -> 57

DigitChar(d) == <<"0", "1", "2", "3", "4", "5", "6", "7", "8", "9">>[d + 1]

RECURSIVE NatString(_)
NatString(n) ==
    IF n < 10 THEN <<DigitChar(n)>>
    ELSE NatString(n \div 10) \o <<DigitChar(n % 10)>>

\* String(n) of an integer: the property key an integer `order` becomes.
NumberToString(n) ==
    IF n < 0 THEN <<"-">> \o NatString(-n) ELSE NatString(n)

\* a < b as Array.prototype.sort() without a comparator orders two strings:
\* by UTF-16 code units, a proper prefix first.
RECURSIVE StringLess(_, _)
StringLess(a, b) ==
    IF b = <<>> THEN FALSE
    ELSE IF a = <<>> THEN TRUE
    ELSE IF CharCode(Head(a)) # CharCode(Head(b))
         THEN CharCode(Head(a)) < CharCode(Head(b))
    ELSE StringLess(Tail(a), Tail(b))

\* str.split(","): the pieces between the commas, empty pieces included.
RECURSIVE SplitComma(_)
SplitComma(s) ==
    IF \A i \in 1..Len(s) : s[i] # ","
    THEN <<s>>
    ELSE LET i == CHOOSE k \in 1..Len(s) :
                      /\ s[k] = ","
                      /\ \A j \in 1..(k - 1) : s[j] # ","
         IN  <<SubSeq(s, 1, i - 1)>> \o SplitComma(SubSeq(s, i + 1, Len(s)))

\* str.trim()
RECURSIVE Trim(_)
Trim(s) ==
    IF s = <<>> THEN s
    ELSE IF Head(s) = " " THEN Trim(Tail(s))
    ELSE IF s[Len(s)] = " " THEN Trim(SubSeq(s, 1, Len(s) - 1))
    ELSE s

\* Object.keys(...).sort(): the set of strings S as the sequence sort() returns.
RECURSIVE SortStrings(_)
SortStrings(S) ==
    IF S = {} THEN <<>>
    ELSE LET m == CHOOSE x \in S : \A y \in S \ {x} : StringLess(x, y)
         IN  <<m>> \o SortStrings(S \ {m})

Range(s) == {s[i] : i \in 1..Len(s)}

\* ------------------------------------------------------------------------
\* Formats and template engines (the Renderer's collaborators)
\* ------------------------------------------------------------------------

Format(engines, isPage, loader, includes, pageType, copy) ==
    [known |-> TRUE, hasEngines |-> engines # <<"-">>,
     engines |-> IF engines = <<"-">> THEN <<>> ELSE engines,
     isPage |-> isPage, loader |-> loader, includes |-> includes,
     pageType |-> pageType, copy |-> copy]

\* formats.search() and formats.get() finding nothing.
NoFormat ==
    [known |-> FALSE, hasEngines |-> FALSE, engines |-> <<>>,
     isPage |-> FALSE, loader |-> FALSE, includes |-> FALSE,
     pageType |-> "", copy |-> ""]

\* The extensions that have a registered format.
RegisteredExts ==
    {<<".", "v">>, <<".", "m">>, <<".", "t">>, <<".", "j">>, <<".", "y">>,
     <<".", "c">>, <<".", "g">>, <<".", "h">>, <<".", "d">>}

\* The registered formats, by extension: the names of the format's engines
\* (<<"-">> for a format without `engines`), isPage, whether it has a
\* loader, whether its first engine has an includes folder, its pageType
\* ("" for none) and its copy ("" for none, "true" or "fn", a function).
Formats(ext) ==
    CASE ext = <<".", "v">> ->
           Format(<<"vto">>, TRUE, TRUE, TRUE, "page", "")
      [] ext = <<".", "m">> ->
           Format(<<"md">>, TRUE, TRUE, TRUE, "page", "")
      [] ext = <<".", "t">> ->
           Format(<<"t1", "t2">>, TRUE, TRUE, TRUE, "page", "")
      [] ext = <<".", "j">> ->
           Format(<<"js">>, TRUE, TRUE, FALSE, "page", "")
      [] ext = <<".", "y">> ->
           Format(<<"-">>, TRUE, TRUE, FALSE, "page", "")
      [] ext = <<".", "c">> ->
           Format(<<"css">>, FALSE, TRUE, FALSE, "asset", "")
      [] ext = <<".", "g">> ->
           Format(<<"-">>, FALSE, FALSE, FALSE, "", "true")
      [] ext = <<".", "h">> ->
           Format(<<"-">>, FALSE, FALSE, FALSE, "", "fn")
      [] ext = <<".", "d">> ->
           Format(<<"-">>, FALSE, TRUE, FALSE, "", "")
      [] OTHER -> NoFormat

\* formats.search(path): the format whose extension the path ends with.
Search(path) ==
    IF \E ext \in RegisteredExts : EndsWith(path, ext)
    THEN Formats(CHOOSE ext \in RegisteredExts : EndsWith(path, ext))
    ELSE NoFormat

\* data.templateEngine: undefined, a string or an array of strings.
NoTemplateEngine == [kind |-> "none", str |-> <<>>, arr |-> <<>>]
StrEngine(s) == [kind |-> "str", str |-> s, arr |-> <<>>]
ArrEngine(a) == [kind |-> "arr", str |-> <<>>, arr |-> a]

\* if (templateEngine): undefined and "" are falsy, every array is truthy.
Truthy(te) ==
    \/ te.kind = "arr"
    \/ te.kind = "str" /\ te.str # <<>>

\* engine.render(content, data, filename) of the engine named e: the
\* template followed by the engine's name and, when the data has a
\* `content`, that content in brackets.
EngineRender(e, content, hasDataContent, dataContent) ==
    content \o <<e>> \o
        (IF hasDataContent THEN <<"(">> \o dataContent \o <<")">> ELSE <<>>)

\* Renderer.#getEngine's reduce over the names of data.templateEngine.
RECURSIVE ReduceEngines(_, _)
ReduceEngines(names, engines) ==
    IF names = <<>> THEN [throws |-> FALSE, defined |-> TRUE, engines |-> engines]
    ELSE LET format == Formats(<<".">> \o Trim(Head(names)))
         IN  IF format.known /\ format.hasEngines
             THEN ReduceEngines(Tail(names), engines \o format.engines)
             ELSE [throws |-> TRUE, defined |-> FALSE, engines |-> <<>>]

\* The names reduced from the last one to the first.
RECURSIVE NamedEngines_Reversed(_)
NamedEngines_Reversed(names) ==
    IF names = <<>> THEN [throws |-> FALSE, defined |-> TRUE, engines |-> <<>>]
    ELSE LET rest == NamedEngines_Reversed(Tail(names))
             format == Formats(<<".">> \o Trim(Head(names)))
         IN  IF rest.throws \/ ~(format.known /\ format.hasEngines)
             THEN [throws |-> TRUE, defined |-> FALSE, engines |-> <<>>]
             ELSE [rest EXCEPT !.engines = rest.engines \o format.engines]

\* The engines data.templateEngine names, in the order the loop of render
\* applies them.
NamedEngines(names) == ReduceEngines(names, <<>>)

\* The engines of the file's own format without the test of line 334.
FormatEngines_Always(ext, isLayout) ==
    [throws |-> FALSE, defined |-> Formats(ext).hasEngines,
     engines |-> Formats(ext).engines]

\* The end of Renderer.#getEngine: the engines of the file's own format,
\* for a layout or a page format only.
FormatEngines(ext, isLayout) ==
    LET format == Formats(ext)
    IN  IF (isLayout \/ format.isPage) /\ format.known /\ format.hasEngines
        THEN [throws |-> FALSE, defined |-> TRUE, engines |-> format.engines]
        ELSE [throws |-> FALSE, defined |-> FALSE, engines |-> <<>>]

\* Renderer.#getEngine(path, data, isLayout); ext is the extension by which
\* formats.search(path) finds the format of the file.
GetEngine(ext, te, isLayout) ==
    IF Truthy(te)
    THEN NamedEngines(IF te.kind = "arr" THEN te.arr ELSE SplitComma(te.str))
    ELSE FormatEngines(ext, isLayout)

\* The loop of Renderer.render over the engines.
RECURSIVE ApplyEngines(_, _, _, _)
ApplyEngines(engines, content, hasDataContent, dataContent) ==
    IF engines = <<>> THEN content
    ELSE ApplyEngines(Tail(engines),
                      EngineRender(Head(engines), content,
                                   hasDataContent, dataContent),
                      hasDataContent, dataContent)

\* Renderer.render(content, data, filename, isLayout).
Render(content, te, hasDataContent, dataContent, ext, isLayout) ==
    LET got == GetEngine(ext, te, isLayout)
    IN  IF got.throws THEN [ok |-> FALSE, content |-> <<>>]
        ELSE IF got.defined
        THEN [ok |-> TRUE,
              content |-> ApplyEngines(got.engines, content,
                                       hasDataContent, dataContent)]
        ELSE [ok |-> TRUE, content |-> content]

\* ------------------------------------------------------------------------
\* Layouts
\* ------------------------------------------------------------------------

\* The names a `layout` value can take; "" is no layout.
LayoutNames == {"L1", "L2", "L3"}

\* The extension of a layout name, by which formats.search(layout) finds
\* the layout's format.
LayoutExt(layout) ==
    CASE layout = "L1" -> <<".", "v">>
      [] layout = "L2" -> <<".", "t">>
      [] layout = "L3" -> <<".", "m">>
      [] layout = "LJ" -> <<".", "j">>
      [] layout = "LG" -> <<".", "g">>
      [] OTHER -> <<".", "x">>

\* A layout file as fs.entries and entry.getContent(format.loader) give it:
\* whether the resolved path has an entry, and the file's data.
LayoutFile(exists, next, te) ==
    [exists |-> exists, layout |-> next, templateEngine |-> te]

\* The value a layout file gives the data key `k`, a key that is not a
\* merged key: L1 and L2 set it, each to a value of its own; "" is undefined.
LayoutK(layout) == IF layout \in {"L1", "L2"} THEN layout ELSE ""

\* The data the loop of #renderLayout works on: the key `k`, `layout`,
\* `templateEngine` and `content`.
LayoutData(k, layout, te, content) ==
    [k |-> k, layout |-> layout, templateEngine |-> te, content |-> content]

\* mergeData(layoutData, data, { content }) for these keys, none of them a
\* merged key: the last object that has the key gives its value.
MergeLayoutData(layoutData, data, content) ==
    [k |-> IF data.k # "" THEN data.k ELSE layoutData.k,
     layout |-> IF data.layout # "" THEN data.layout ELSE layoutData.layout,
     templateEngine |-> IF data.templateEngine.kind # "none"
                        THEN data.templateEngine
                        ELSE layoutData.templateEngine,
     content |-> content]

\* The state of the loop of #renderLayout before it starts, for the page's
\* data and the page's rendered content; `page` is the data of the page
\* the call is for, and `rendered` lists the layouts rendered so far, the
\* last of them being `path`.
LayoutStart(data, content) ==
    [layout |-> data.layout, page |-> data, data |-> data,
     content |-> content, renders |-> 0, rendered |-> <<>>,
     status |-> IF data.layout = "" THEN "done" ELSE "loop"]

\* An iteration that does not follow the layout's own `layout`.
LayoutStep_NoOuterLayout(files, st) ==
    [st EXCEPT !.content = Render(<<st.layout>>, NoTemplateEngine, TRUE,
                                  st.content, LayoutExt(st.layout),
                                  TRUE).content,
               !.renders = st.renders + 1,
               !.layout = "",
               !.status = "done"]

\* An iteration without `delete data.templateEngine`.
LayoutStep_KeepsTemplateEngine(files, st) ==
    IF \/ ~Formats(LayoutExt(st.layout)).loader
       \/ ~Formats(LayoutExt(st.layout)).includes
       \/ ~files[st.layout].exists
    THEN [st EXCEPT !.status = "error"]
    ELSE
    LET layoutData == LayoutData(LayoutK(st.layout), files[st.layout].layout,
                                 files[st.layout].templateEngine,
                                 <<st.layout>>)
        data == MergeLayoutData(layoutData, [st.data EXCEPT !.layout = ""],
                                st.content)
        out == Render(layoutData.content, data.templateEngine,
                      TRUE, data.content, LayoutExt(st.layout), TRUE)
    IN  IF ~out.ok
        THEN [st EXCEPT !.status = "error"]
        ELSE [layout |-> layoutData.layout, page |-> st.page, data |-> data,
              content |-> out.content, renders |-> st.renders + 1,
              rendered |-> Append(st.rendered, st.layout),
              status |-> IF layoutData.layout = "" THEN "done" ELSE "loop"]

\* One iteration of the while loop of Renderer.#renderLayout, files being
\* the layout files of the site.
LayoutStep(files, st) ==
    LET format == Formats(LayoutExt(st.layout))
    IN  IF ~format.known \/ ~format.loader
        THEN [st EXCEPT !.status = "error"]
        ELSE IF ~(format.hasEngines /\ format.engines # <<>> /\ format.includes)
        THEN [st EXCEPT !.status = "error"]
        ELSE IF ~files[st.layout].exists
        THEN [st EXCEPT !.status = "error"]
        ELSE LET layoutData == LayoutData(LayoutK(st.layout),
                                          files[st.layout].layout,
                                          files[st.layout].templateEngine,
                                          <<st.layout>>)
                 own == [st.data EXCEPT !.layout = "",
                                        !.templateEngine = NoTemplateEngine]
                 data == MergeLayoutData(layoutData, own, st.content)
                 out == Render(layoutData.content, data.templateEngine,
                               TRUE, data.content, LayoutExt(st.layout), TRUE)
             IN  IF ~out.ok
                 THEN [st EXCEPT !.status = "error", !.data = data]
                 ELSE [layout |-> layoutData.layout,
                       page |-> st.page,
                       data |-> data,
                       content |-> out.content,
                       renders |-> st.renders + 1,
                       rendered |-> Append(st.rendered, st.layout),
                       status |-> IF layoutData.layout = ""
                                  THEN "done" ELSE "loop"]

\* Renderer.#renderLayout(page, content): the loop run to its end, or for
\* MaxLayoutSteps iterations (status "loop" is then a loop still running).
RECURSIVE LayoutLoop(_, _, _)
LayoutLoop(files, st, fuel) ==
    IF st.status # "loop" \/ fuel = 0 THEN st
    ELSE LayoutLoop(files, LayoutStep(files, st), fuel - 1)

\* The loop with its errors swallowed.
RenderLayout_SwallowsErrors(files, data, content) ==
    [LayoutLoop(files, LayoutStart(data, content), MaxLayoutSteps)
        EXCEPT !.status = "done"]

RenderLayout(files, data, content) ==
    LayoutLoop(files, LayoutStart(data, content), MaxLayoutSteps)

\* ------------------------------------------------------------------------
\* Renderer.renderPages: state
\* ------------------------------------------------------------------------


\* The pages of the site that renderPages can be given.
PageNames == {"a", "b", "c", "d"}

\* The values of data.renderOrder the model draws from.
RenderOrders == {-2, -1, 2, 10}

\* page.src.ext of a source page.
PageExt(p) ==
    CASE p = "a" -> <<".", "m">>
      [] p = "b" -> <<".", "j">>
      [] p = "d" -> <<".", "j">>
      [] OTHER -> <<".", "c">>

\* isGenerator(page.data.content)
IsGenerator(p) == p \in {"b", "d"}

\* page.data.layout of a source page ("" when it has none).
PageLayout(p) == IF p = "c" THEN "" ELSE "L1"

\* page.outputPath.endsWith(".html") of a source page.
PageIsHtml(p) == p # "c"

\* The Page object of a source page (idx -1) or of the idx-th yield of a
\* generator page.
PageId(p, idx) == [src |-> p, idx |-> idx]

NewPage(layout, templateEngine, html, content) ==
    [layout |-> layout, templateEngine |-> templateEngine,
     html |-> html, source |-> content,
     preprocessed |-> FALSE, rendered |-> FALSE,
     hasChildren |-> FALSE, children |-> <<>>,
     hasContent |-> FALSE, content |-> <<>>, layoutRendered |-> FALSE]

SourcePage(p) ==
    NewPage(PageLayout(p), NoTemplateEngine, PageIsHtml(p), <<p>>)

\* { ...page.data } of a page, which sets no key `k`.
PageData(page) ==
    LayoutData("", page.layout, page.templateEngine, page.source)

\* The error renderPages rejects with: none yet, the error a call of render
\* threw ("raw"), or an error with the message 'Error rendering the page:
\* <sourcePath>' ("page") or 'Error rendering the layout of the page
\* <sourcePath>' ("layout") and the thrown error as its cause.
\* <sourcePath> is given as the page it is the sourcePath of.
NoPage == PageId("", -2)
NoRejection == [message |-> "none", sourcePath |-> NoPage, cause |-> FALSE]
Rejection(message, sourcePath, cause) ==
    [message |-> message, sourcePath |-> sourcePath, cause |-> cause]

\* page.data.renderOrder || 0
OrderOf(p) == IF renderOrder[p] = <<>> \/ renderOrder[p] = <<0>>
              THEN 0 ELSE renderOrder[p][1]

\* Renderer.#groupPages(pages): the pages by the property key of their
\* order, the keys in the order Object.keys(renderOrder).sort() gives.
GroupPages(pages) ==
    LET keys == {NumberToString(OrderOf(pages[i])) : i \in 1..Len(pages)}
        sorted == SortStrings(keys)
    IN  [k \in 1..Len(sorted) |->
            SelectSeq(pages, LAMBDA p : NumberToString(OrderOf(p)) = sorted[k])]

Groups == GroupPages(from)

\* The values a generator can yield: the kind of its url (false; a value
\* getPageUrl resolves to nothing; a URL with an .html or a .css output
\* path) and its layout.
YieldKinds ==
    {[url |-> "false", layout |-> ""],
     [url |-> "unresolved", layout |-> ""],
     [url |-> "html", layout |-> ""],
     [url |-> "css", layout |-> ""],
     [url |-> "css", layout |-> "L2"]}

RECURSIVE SeqsUpTo(_, _)
SeqsUpTo(S, n) ==
    IF n = 0 THEN {<<>>}
    ELSE LET shorter == SeqsUpTo(S, n - 1)
         IN  shorter \cup {Append(q, x) : q \in shorter, x \in S}

\* The sequences of values a generator page can yield: the generator d
\* yields one value, with an .html output path and no layout.
Yields(g) ==
    IF g = "d" THEN {<<[url |-> "html", layout |-> ""]>>}
    ELSE SeqsUpTo(YieldKinds, MaxYields)

\* getPageUrl(newPage, prettyUrls, base) for a yielded value: "" stands for
\* a falsy result, otherwise the kind of output path the URL gives.
GetPageUrl(g, data) ==
    CASE data.url = "false" -> ""
      [] data.url = "unresolved" -> ""
      [] OTHER -> data.url

\* YieldPages without `if (!url) continue`.
YieldPages_PushUnresolved(g, index, data) ==
    IF data.url = "false" THEN <<>>
    ELSE <<<<PageId(g, index),
             NewPage(IF data.layout # "" THEN data.layout
                     ELSE pageObjs[PageId(g, -1)].layout,
                     pageObjs[PageId(g, -1)].templateEngine,
                     TRUE, <<g, "yield">>)>>>>

\* The body without `delete newPage.data.layout`.
YieldPages_KeepsLayout(g, index, data) ==
    IF GetPageUrl(g, data) = "" THEN <<>>
    ELSE <<<<PageId(g, index),
             NewPage(IF data.layout # "" THEN data.layout
                     ELSE pageObjs[PageId(g, -1)].layout,
                     pageObjs[PageId(g, -1)].templateEngine,
                     GetPageUrl(g, data) = "html", <<g, "yield">>)>>>>

\* The body of `for await (const data of generator)` for the value `data`
\* yielded at position index by the generator page g: the pages it pushes
\* to generatedPages, as <<page id, Page>> pairs.
YieldPages(g, index, data) ==
    IF data.url = "false" THEN <<>>
    ELSE LET url == GetPageUrl(g, data)
         IN  IF url = "" THEN <<>>
             ELSE LET html == (url = "html")
                      inherited == IF data.layout # "" THEN data.layout
                                   ELSE pageObjs[PageId(g, -1)].layout
                      layout == IF data.layout = "" /\ ~html
                                THEN "" ELSE inherited
                  IN  <<<<PageId(g, index),
                          NewPage(layout,
                                  pageObjs[PageId(g, -1)].templateEngine,
                                  html, <<g, "yield">>)>>>>

\* The whole for-await loop over the values ys, index counting from `index`.
RECURSIVE GeneratorPages(_, _, _)
GeneratorPages(g, index, ys) ==
    IF ys = <<>> THEN <<>>
    ELSE YieldPages(g, index, Head(ys))
             \o GeneratorPages(g, index + 1, Tail(ys))

\* Renderer.#renderPage(page): the page's content rendered with the page's
\* data, the content removed from the data.
RenderPage(id) ==
    Render(pageObjs[id].source, pageObjs[id].templateEngine, FALSE, <<>>,
           PageExt(id.src), FALSE)

\* The group not split: its generators taken with its regular pages.
GroupRegular_All == Groups[gi]

\* The regular pages and the generators of the group being handled.
GroupRegular == SelectSeq(Groups[gi], LAMBDA p : ~IsGenerator(p))
GroupGenerators == SelectSeq(Groups[gi], LAMBDA p : IsGenerator(p))

Ids(pages) == [i \in 1..Len(pages) |-> PageId(pages[i], -1)]

\* this.preprocessors.run(pages): the hook chain sees each page.
Preprocess(objs, ids) ==
    [id \in DOMAIN objs |->
        IF id \in Range(ids) THEN [objs[id] EXCEPT !.preprocessed = TRUE]
        ELSE objs[id]]

\* The loop left one group early.
NoMoreGroups_OneEarly == gi >= Len(Groups)

\* The condition that ends `for (const group of this.#groupPages(from))`.
NoMoreGroups == gi > Len(Groups)

\* ------------------------------------------------------------------------
\* Renderer.renderPages: steps
\* ------------------------------------------------------------------------

\* The step without `to.push(...pages)`.
BeginGroup_NoPush ==
    /\ pc = "loop"
    /\ ~NoMoreGroups
    /\ pageObjs' = Preprocess(pageObjs, Ids(GroupRegular))
    /\ generatedPages' = <<>>
    /\ pc' = "generators"
    /\ UNCHANGED <<from, renderOrder, gi, expanded, yielded, to,
                   renderedPages, pending, rejection>>
    /\ UNCHANGED notRenderPages

\* Lines 74-90: a group is taken, split, its regular pages preprocessed and
\* appended to `to`.
BeginGroup ==
    /\ pc = "loop"
    /\ ~NoMoreGroups
    /\ pageObjs' = Preprocess(pageObjs, Ids(GroupRegular))
    /\ to' = to \o Ids(GroupRegular)
    /\ generatedPages' = <<>>
    /\ pc' = "generators"
    /\ UNCHANGED <<from, renderOrder, gi, expanded, yielded,
                   renderedPages, pending, rejection>>
    /\ UNCHANGED notRenderPages

\* Lines 94-145: the next generator of the group is rendered and the values
\* it yields become pages.
ExpandGenerator ==
    /\ pc = "generators"
    /\ \E i \in 1..Len(GroupGenerators) :
          LET g == GroupGenerators[i]
              gen == Render(<<g>>, pageObjs[PageId(g, -1)].templateEngine,
                            FALSE, <<>>, PageExt(g), FALSE)
          IN  /\ g \notin expanded
              /\ \A j \in 1..(i - 1) : GroupGenerators[j] \in expanded
              /\ expanded' = expanded \cup {g}
              /\ IF ~gen.ok
                 THEN /\ pc' = "rejected"
                      /\ rejection' = Rejection("raw", NoPage, FALSE)
                      /\ UNCHANGED <<yielded, generatedPages, pageObjs>>
                 ELSE \E ys \in Yields(g) :
                        LET new == GeneratorPages(g, 0, ys)
                        IN  /\ yielded' = [yielded EXCEPT ![g] = ys]
                            /\ generatedPages' = generatedPages \o
                                 [k \in 1..Len(new) |-> new[k][1]]
                            /\ pageObjs' =
                                 [id \in DOMAIN pageObjs \cup
                                         {new[k][1] : k \in 1..Len(new)} |->
                                    IF id \in DOMAIN pageObjs THEN pageObjs[id]
                                    ELSE new[CHOOSE k \in 1..Len(new) :
                                                new[k][1] = id][2]]
                            /\ pc' = "generators"
                            /\ UNCHANGED rejection
    /\ UNCHANGED <<from, renderOrder, gi, to, renderedPages,
                   pending>>
    /\ UNCHANGED notRenderPages

\* Lines 151-158: the generated pages are preprocessed and appended to `to`,
\* and the content of the group's pages is handed to concurrent().
PreprocessGenerated ==
    /\ pc = "generators"
    /\ Range(GroupGenerators) \subseteq expanded
    /\ pageObjs' = Preprocess(pageObjs, generatedPages)
    /\ to' = to \o generatedPages
    /\ pending' = Range(Ids(GroupRegular)) \cup Range(generatedPages)
    /\ pc' = "render"
    /\ UNCHANGED <<from, renderOrder, gi, expanded, yielded,
                   generatedPages, renderedPages, rejection>>
    /\ UNCHANGED notRenderPages

\* The test without the output path.
SavesChildren_LayoutOnly(page) == page.layout # ""

\* Line 164: page.data.layout || page.outputPath.endsWith(".html")
SavesChildren(page) == page.layout # "" \/ page.html

\* Lines 159-175: the callback of one page of the fan-out runs to its end.
\* A callback started before renderPages rejected still finishes.
RenderContent(id) ==
    /\ pc \in {"render", "rejected"}
    /\ id \in pending
    /\ pending' = pending \ {id}
    /\ LET out == RenderPage(id)
           page == pageObjs[id]
       IN  IF ~out.ok
           THEN /\ pc' = "rejected"
                /\ rejection' = IF pc = "rejected" THEN rejection
                                ELSE Rejection("page", id, TRUE)
                /\ UNCHANGED <<pageObjs, renderedPages>>
           ELSE IF SavesChildren(page)
           THEN /\ pageObjs' = [pageObjs EXCEPT ![id] =
                      [page EXCEPT !.rendered = TRUE, !.hasChildren = TRUE,
                                   !.children = out.content]]
                /\ renderedPages' = Append(renderedPages, id)
                /\ UNCHANGED <<pc, rejection>>
           ELSE /\ pageObjs' = [pageObjs EXCEPT ![id] =
                      [page EXCEPT !.rendered = TRUE, !.hasContent = TRUE,
                                   !.content = out.content]]
                /\ UNCHANGED <<pc, renderedPages, rejection>>
    /\ UNCHANGED <<from, renderOrder, gi, expanded, yielded,
                   generatedPages, to>>
    /\ UNCHANGED notRenderPages

\* Line 157, 181: concurrent() resolves once every callback has finished,
\* and the loop goes on with the next group.
EndGroup ==
    /\ pc = "render"
    /\ pending = {}
    /\ gi' = gi + 1
    /\ pc' = "loop"
    /\ UNCHANGED <<from, renderOrder, expanded, yielded,
                   generatedPages, pageObjs, to, renderedPages, pending,
                   rejection>>
    /\ UNCHANGED notRenderPages

\* Lines 183-186: after the last group the layouts of renderedPages are
\* handed to concurrent().
StartLayouts ==
    /\ pc = "loop"
    /\ NoMoreGroups
    /\ pending' = Range(renderedPages)
    /\ pc' = "layouts"
    /\ UNCHANGED <<from, renderOrder, gi, expanded, yielded,
                   generatedPages, pageObjs, to, renderedPages, rejection>>
    /\ UNCHANGED notRenderPages

\* Lines 187-199: the layout callback of one page runs to its end; the
\* callback of a page whose #renderLayout loop does not end never does.
RenderPageLayout(id) ==
    /\ pc \in {"layouts", "layoutRejected"}
    /\ id \in pending
    /\ RenderLayout(layoutFiles, PageData(pageObjs[id]),
                    pageObjs[id].children).status # "loop"
    /\ pending' = pending \ {id}
    /\ LET page == pageObjs[id]
           out == RenderLayout(layoutFiles, PageData(page), page.children)
       IN  IF out.status # "done"
           THEN /\ pc' = "layoutRejected"
                /\ rejection' = IF pc = "layoutRejected" THEN rejection
                                ELSE Rejection("layout", id, TRUE)
                /\ UNCHANGED pageObjs
           ELSE /\ pageObjs' = [pageObjs EXCEPT ![id] =
                      [page EXCEPT !.hasContent = TRUE,
                                   !.content = out.content,
                                   !.layoutRendered = TRUE]]
                /\ UNCHANGED <<pc, rejection>>
    /\ UNCHANGED <<from, renderOrder, gi, expanded, yielded,
                   generatedPages, to, renderedPages>>
    /\ UNCHANGED notRenderPages

\* renderPages resolving without waiting for the layout callbacks.
Finish_NoWait ==
    /\ pc = "layouts"
    /\ pc' = "done"
    /\ UNCHANGED <<from, renderOrder, gi, expanded, yielded,
                   generatedPages, pageObjs, to, renderedPages, pending,
                   rejection>>
    /\ UNCHANGED notRenderPages

\* Lines 185, 205: concurrent() resolves once every layout callback has
\* finished, and renderPages resolves.
Finish ==
    /\ pc = "layouts"
    /\ pending = {}
    /\ pc' = "done"
    /\ UNCHANGED <<from, renderOrder, gi, expanded, yielded,
                   generatedPages, pageObjs, to, renderedPages, pending,
                   rejection>>
    /\ UNCHANGED notRenderPages

\* The layout files of the site renderPages is run on: L1 names L2, which
\* names no layout.
SiteLayouts ==
    [l \in LayoutNames |->
        LayoutFile(TRUE, IF l = "L1" THEN "L2" ELSE "", NoTemplateEngine)]

\* The sequences of distinct pages renderPages can be given.
PageLists ==
    {<<"a", "c">>, <<"b", "a">>, <<"c", "b">>}

RenderInit ==
    /\ from \in PageLists
    /\ renderOrder \in [PageNames -> {<<>>} \cup {<<n>> : n \in RenderOrders}]
    /\ \A p \in PageNames \ Range(from) : renderOrder[p] = <<>>
    /\ pc = "loop"
    /\ gi = 1
    /\ expanded = {}
    /\ yielded = [p \in PageNames |-> <<>>]
    /\ generatedPages = <<>>
    /\ pageObjs = [id \in {PageId(p, -1) : p \in Range(from)} |->
                      SourcePage(id.src)]
    /\ to = <<>>
    /\ renderedPages = <<>>
    /\ pending = {}
    /\ rejection = NoRejection

RenderNext ==
    \/ BeginGroup
    \/ ExpandGenerator
    \/ PreprocessGenerated
    \/ \E id \in DOMAIN pageObjs : RenderContent(id)
    \/ EndGroup
    \/ StartLayouts
    \/ \E id \in DOMAIN pageObjs : RenderPageLayout(id)
    \/ Finish

\* A data.templateEngine naming an engine that is not registered.
UnknownEngine == StrEngine(<<"z">>)

\* The source pages of a site whose pages or layouts may fail to render:
\* the page with a layout and a templateEngine drawn for it.
SitePages(p) ==
    {NewPage(layout, te, PageIsHtml(p), <<p>>) :
        layout \in CASE p = "a" -> {"", "L1", "LX", "LJ", "LG"}
                      [] p \in {"b", "d"} -> {"L1"}
                      [] OTHER -> {"", "L1"},
        te \in {NoTemplateEngine, UnknownEngine}}

\* The layout files of such a site: those of SiteLayouts, L2 maybe missing,
\* L1 maybe with a templateEngine that is not registered.
SiteLayoutFiles ==
    {SiteLayouts,
     [SiteLayouts EXCEPT !["L2"] = LayoutFile(FALSE, "", NoTemplateEngine)],
     [SiteLayouts EXCEPT !["L1"] = LayoutFile(TRUE, "L2", UnknownEngine)]}

\* The page lists of such a site: those of PageLists, and two generators.
SitePageLists == PageLists \cup {<<"d", "b">>}

\* renderPages is given such a site, its pages in one group or the first
\* page in a group of its own.
SiteInit ==
    /\ from \in SitePageLists
    /\ renderOrder \in [PageNames -> {<<>>, <<-1>>}]
    /\ \A p \in PageNames : renderOrder[p] # <<>> => p = from[1]
    /\ pc = "loop"
    /\ gi = 1
    /\ expanded = {}
    /\ yielded = [p \in PageNames |-> <<>>]
    /\ generatedPages = <<>>
    /\ pageObjs \in [{PageId(p, -1) : p \in Range(from)} ->
                        UNION {SitePages(p) : p \in PageNames}]
    /\ \A id \in DOMAIN pageObjs : pageObjs[id] \in SitePages(id.src)
    /\ to = <<>>
    /\ renderedPages = <<>>
    /\ pending = {}
    /\ rejection = NoRejection
    /\ layoutFiles \in SiteLayoutFiles
    /\ layoutIn = ""
    /\ layoutSt = [LayoutStart(LayoutData("", "", NoTemplateEngine, <<>>),
                               <<>>) EXCEPT !.status = "idle"]

\* renderPages is not running.
RenderIdle ==
    /\ from = <<>>
    /\ renderOrder = [p \in PageNames |-> <<>>]
    /\ pc = "idle"
    /\ gi = 1
    /\ expanded = {}
    /\ yielded = [p \in PageNames |-> <<>>]
    /\ generatedPages = <<>>
    /\ pageObjs = <<>>
    /\ to = <<>>
    /\ renderedPages = <<>>
    /\ pending = {}
    /\ rejection = NoRejection

\* ------------------------------------------------------------------------
\* Renderer.render: one call, step by step
\* ------------------------------------------------------------------------


\* The characters of the data.templateEngine strings the model draws.
EngineChars == {"v", "t", "x", ",", " "}

RECURSIVE StringsUpTo(_, _)
StringsUpTo(chars, n) ==
    IF n = 0 THEN {<<>>}
    ELSE LET shorter == StringsUpTo(chars, n - 1)
         IN  shorter \cup {Append(q, x) : q \in shorter, x \in chars}

\* The values of data.templateEngine the model draws.
TemplateEngines ==
    {NoTemplateEngine}
        \cup {StrEngine(str) : str \in StringsUpTo(EngineChars, MaxEngineChars)}
        \cup {ArrEngine(a) :
                a \in SeqsUpTo({<<"v">>, <<"t">>, <<" ", "m">>, <<"x">>}, 2)}

\* The extensions of the files render is called for.
FileExts == {<<".", "m">>, <<".", "c">>, <<".", "y">>, <<".", "x">>}

EngineInit ==
    /\ renderIn \in [templateEngine : TemplateEngines, ext : FileExts,
                     isLayout : BOOLEAN]
    /\ renderPc = "call"
    /\ renderEngines = <<>>
    /\ renderContent = <<"src">>

\* Line 214: the engines are looked up.
RenderLookup ==
    /\ renderPc = "call"
    /\ LET got == GetEngine(renderIn.ext, renderIn.templateEngine,
                            renderIn.isLayout)
       IN  /\ renderPc' = IF got.throws THEN "thrown"
                          ELSE IF got.defined THEN "loop" ELSE "returned"
           /\ renderEngines' = got.engines
    /\ UNCHANGED <<renderIn, renderContent>>
    /\ UNCHANGED notRender

\* Lines 217-219: the next engine renders the content.
RenderApply ==
    /\ renderPc = "loop"
    /\ renderEngines # <<>>
    /\ renderContent' = EngineRender(Head(renderEngines), renderContent,
                                     FALSE, <<>>)
    /\ renderEngines' = Tail(renderEngines)
    /\ UNCHANGED <<renderIn, renderPc>>
    /\ UNCHANGED notRender

\* Line 222: the content is returned.
RenderReturn ==
    /\ renderPc = "loop"
    /\ renderEngines = <<>>
    /\ renderPc' = "returned"
    /\ UNCHANGED <<renderIn, renderEngines, renderContent>>
    /\ UNCHANGED notRender

EngineNext == RenderLookup \/ RenderApply \/ RenderReturn

\* render is not being called.
EngineIdle ==
    /\ renderIn = [templateEngine |-> NoTemplateEngine, ext |-> <<>>,
                   isLayout |-> FALSE]
    /\ renderPc = "idle"
    /\ renderEngines = <<>>
    /\ renderContent = <<>>

\* ------------------------------------------------------------------------
\* Renderer.#renderLayout: one call, step by step
\* ------------------------------------------------------------------------

\* The values a `layout` can name: the layout files, a name of an unknown
\* format, and none.
LayoutValues == LayoutNames \cup {"LX", ""}

\* The layout files the model draws: a file is missing, or has a `layout`
\* and a templateEngine of its own.
LayoutFiles ==
    {LayoutFile(FALSE, "", NoTemplateEngine)}
        \cup {LayoutFile(TRUE, next, te) :
                next \in LayoutValues,
                te \in {NoTemplateEngine, StrEngine(<<"t">>), StrEngine(<<"x">>)}}

LayoutInit ==
    /\ layoutFiles \in [LayoutNames -> LayoutFiles]
    /\ layoutIn \in LayoutValues
    /\ \E k \in {"", "page"}, te \in {NoTemplateEngine, StrEngine(<<"m">>)} :
          layoutSt = LayoutStart(LayoutData(k, layoutIn, te, <<"raw">>),
                                 <<"page">>)

\* Lines 258-303: one iteration of the loop.
LayoutIterate ==
    /\ layoutSt.status = "loop"
    /\ layoutSt.renders < MaxLayoutSteps
    /\ layoutSt' = LayoutStep(layoutFiles, layoutSt)
    /\ UNCHANGED <<layoutFiles, layoutIn>>
    /\ UNCHANGED notRenderLayout

\* Line 305: the loop has ended and the content is returned.
LayoutReturn ==
    /\ layoutSt.status = "done"
    /\ layoutSt' = [layoutSt EXCEPT !.status = "returned"]
    /\ UNCHANGED <<layoutFiles, layoutIn>>
    /\ UNCHANGED notRenderLayout

\* Lines 262, 268, 281: the call throws.
LayoutThrow ==
    /\ layoutSt.status = "error"
    /\ layoutSt' = [layoutSt EXCEPT !.status = "thrown"]
    /\ UNCHANGED <<layoutFiles, layoutIn>>
    /\ UNCHANGED notRenderLayout

LayoutNext == LayoutIterate \/ LayoutReturn \/ LayoutThrow

\* #renderLayout is not being called on its own.
LayoutIdle ==
    /\ layoutFiles = SiteLayouts
    /\ layoutIn = ""
    /\ layoutSt = [LayoutStart(LayoutData("", "", NoTemplateEngine, <<>>),
                               <<>>) EXCEPT !.status = "idle"]

\* ------------------------------------------------------------------------
\* The Source scanner: the file tree
\* ------------------------------------------------------------------------

\* posix.join(path, name) of a normalized path and a name.
Join(path, name) ==
    IF name = <<>> THEN path
    ELSE IF path = <<"/">> THEN path \o name
    ELSE path \o <<"/">> \o name

\* normalizePath(path): the path made absolute.
NormalizePath(path) ==
    IF StartsWith(path, <<"/">>) THEN path ELSE <<"/">> \o path

\* from.replace(/\/$/, "")
StripSlash(path) ==
    IF EndsWith(path, <<"/">>) THEN SubSeq(path, 1, Len(path) - 1) ELSE path

\* An entry of fs.entries.
FileEntry(dir, name) ==
    [type |-> "file", name |-> name, path |-> Join(dir, name),
     children |-> <<>>]

DirEntry(dir, name, children) ==
    [type |-> "directory", name |-> name, path |-> Join(dir, name),
     children |-> children]

\* The source tree:
\*   /i.m /s.c /p.g /r.h /q.d /n.z /u.m /_h.m /.e
\*   /st/a.m /st/b.z /st/_q.z /st/su/c.z /st/su/e.c /st/su/_j/t.z /st/_k/w.z
\*   /_in/x.m /_in/y.z /_in/de/v.z
\*   /.well-known/k.m
SourceTree ==
    LET st == <<"/", "s", "t">>
        su == <<"/", "s", "t", "/", "s", "u">>
        in == <<"/", "_", "i", "n">>
        wk == <<".", "w", "e", "l", "l", "-", "k", "n", "o", "w", "n">>
    IN  DirEntry(<<"/">>, <<>>, <<
            FileEntry(<<"/">>, <<"i", ".", "m">>),
            FileEntry(<<"/">>, <<"s", ".", "c">>),
            FileEntry(<<"/">>, <<"p", ".", "g">>),
            FileEntry(<<"/">>, <<"r", ".", "h">>),
            FileEntry(<<"/">>, <<"q", ".", "d">>),
            FileEntry(<<"/">>, <<"n", ".", "z">>),
            FileEntry(<<"/">>, <<"u", ".", "m">>),
            FileEntry(<<"/">>, <<"_", "h", ".", "m">>),
            FileEntry(<<"/">>, <<".", "e">>),
            DirEntry(<<"/">>, <<"s", "t">>, <<
                FileEntry(st, <<"a", ".", "m">>),
                FileEntry(st, <<"b", ".", "z">>),
                FileEntry(st, <<"_", "q", ".", "z">>),
                DirEntry(st, <<"s", "u">>, <<
                    FileEntry(su, <<"c", ".", "z">>),
                    FileEntry(su, <<"e", ".", "c">>),
                    DirEntry(su, <<"_", "j">>, <<
                        FileEntry(Join(su, <<"_", "j">>), <<"t", ".", "z">>)>>)>>),
                DirEntry(st, <<"_", "k">>, <<
                    FileEntry(Join(st, <<"_", "k">>), <<"w", ".", "z">>)>>)>>),
            DirEntry(<<"/">>, <<"_", "i", "n">>, <<
                FileEntry(in, <<"x", ".", "m">>),
                FileEntry(in, <<"y", ".", "z">>),
                DirEntry(in, <<"d", "e">>, <<
                    FileEntry(Join(in, <<"d", "e">>), <<"v", ".", "z">>)>>)>>),
            DirEntry(<<"/">>, wk, <<
                FileEntry(<<"/">> \o wk, <<"k", ".", "m">>)>>)>>)

\* The files whose own data sets url to false.
UrlFalse == {<<"/", "u", ".", "m">>}

\* ------------------------------------------------------------------------
\* The Source scanner: configuration
\* ------------------------------------------------------------------------

NoDest == [kind |-> "none", path |-> <<>>, fn |-> ""]
StrDest(path) == [kind |-> "str", path |-> path, fn |-> ""]
FnDest(fn) == [kind |-> "fn", path |-> <<>>, fn |-> fn]

\* The ignore filters a site can add: functions of the path.
FilterMatches(filter, path) ==
    CASE filter = "endsZ" -> EndsWith(path, <<".", "z">>)
      [] filter = "underSt" -> StartsWith(path, <<"/", "s", "t", "/">>)
      [] OTHER -> FALSE

\* A copy function: undefined, or the functions it composes, innermost
\* first (none for the identity).
NoCopy == [defined |-> FALSE, fns |-> <<>>]

\* The function named fn applied to a path.
ApplyFn(fn, path) == <<"/", fn>> \o path

RECURSIVE ApplyFns(_, _)
ApplyFns(fns, path) ==
    IF fns = <<>> THEN path ELSE ApplyFns(Tail(fns), ApplyFn(Head(fns), path))

\* The configuration a build reads.
Config(paths, ign, flt, bf) ==
    [staticPaths |-> paths, ignored |-> ign, filters |-> flt,
     buildFilters |-> bf]

\* The build filters: none, or one filter that rejects the entries of
\* rejectEntry and the (entry, page) pairs of the entries of rejectPage.
NoBuildFilters == [any |-> FALSE, rejectEntry |-> {}, rejectPage |-> {}]
BuildFilter(entries, pages) ==
    [any |-> TRUE, rejectEntry |-> entries, rejectPage |-> pages]

\* The test of the build filters left out.
RejectsEntry_Never(cfg, entry) == FALSE

\* buildFilters.some((filter) => !filter(entry))
RejectsEntry(cfg, entry) ==
    cfg.buildFilters.any /\ entry.path \in cfg.buildFilters.rejectEntry

\* !buildFilters.length || buildFilters.every((filter) => filter(entry, page))
AcceptsPage(cfg, entry) ==
    \/ ~cfg.buildFilters.any
    \/ /\ entry.path \notin cfg.buildFilters.rejectEntry
       /\ entry.path \notin cfg.buildFilters.rejectPage

\* Source.#isIgnored(entry) without the test of the "_" prefix.
IsIgnored_NoUnderscore(cfg, entry) ==
    \/ StartsWith(entry.name, <<".">>)
    \/ entry.path \in cfg.ignored
    \/ \E f \in cfg.filters : FilterMatches(f, entry.path)

\* Source.#isIgnored(entry) that ignores files and no folder.
IsIgnored_OnlyFiles(cfg, entry) ==
    /\ entry.type = "file"
    /\ \/ StartsWith(entry.name, <<".">>)
       \/ StartsWith(entry.name, <<"_">>)
       \/ entry.path \in cfg.ignored
       \/ \E f \in cfg.filters : FilterMatches(f, entry.path)

\* Source.#isIgnored(entry)
IsIgnored(cfg, entry) ==
    \/ StartsWith(entry.name, <<".">>)
    \/ StartsWith(entry.name, <<"_">>)
    \/ entry.path \in cfg.ignored
    \/ \E f \in cfg.filters : FilterMatches(f, entry.path)

\* this.staticPaths.get(path): the entry, `found` telling whether there is one.
NoStaticPath == [found |-> FALSE, dest |-> NoDest, dirOnly |-> FALSE]
GetStaticPath(cfg, path) ==
    IF path \in DOMAIN cfg.staticPaths
    THEN [found |-> TRUE, dest |-> cfg.staticPaths[path].dest,
          dirOnly |-> cfg.staticPaths[path].dirOnly]
    ELSE NoStaticPath

\* The lookup of a file's own static path that keeps a dirOnly entry.
FileStaticPath_KeepsDirOnly(cfg, entry) == GetStaticPath(cfg, entry.path)

\* Lines 220-225 and 356-361: the static path of a file entry; an entry
\* that must be a directory does not count.
FileStaticPath(cfg, entry) ==
    LET copyExplicit == GetStaticPath(cfg, entry.path)
    IN  IF copyExplicit.found /\ copyExplicit.dirOnly THEN NoStaticPath
        ELSE copyExplicit

\* `for (const path of this.staticPaths.keys()) if (path.startsWith(entry.path))`
HasStaticPathInside(cfg, entry) ==
    \E path \in DOMAIN cfg.staticPaths : StartsWith(path, entry.path)

\* getOutputPath(entry, path, dest, copy)
GetOutputPath(entry, path, dest, copy) ==
    IF dest.kind = "str" THEN dest.path
    ELSE LET joined == Join(path, entry.name)
             output == IF copy.defined THEN ApplyFns(copy.fns, joined)
                       ELSE joined
         IN  IF dest.kind = "fn" THEN ApplyFn(dest.fn, output) ELSE output

\* Source.#copyFile(entry, dirPath, ext, dest, copy): the StaticFile.
CopyFile(entry, dirPath, dest, copy) ==
    [entry |-> entry.path,
     outputPath |-> GetOutputPath(entry, dirPath, dest, copy)]

\* Lines 201-211 and 337-347: the output folder and the copy function of a
\* folder that has a static path.
FolderCopy(copyExplicit, dirPath, copy) ==
    IF ~copyExplicit.found THEN [dirPath |-> dirPath, copy |-> copy]
    ELSE IF copyExplicit.dest.kind = "fn"
    THEN [dirPath |-> dirPath,
          copy |-> [defined |-> TRUE,
                    fns |-> copy.fns \o <<copyExplicit.dest.fn>>]]
    ELSE [dirPath |-> IF copyExplicit.dest.kind = "str"
                      THEN copyExplicit.dest.path ELSE dirPath,
          copy |-> [defined |-> TRUE, fns |-> copy.fns]]

NoOutput == [data |-> {}, pages |-> <<>>, staticFiles |-> <<>>]
Both(a, b) ==
    [data |-> a.data \cup b.data, pages |-> a.pages \o b.pages,
     staticFiles |-> a.staticFiles \o b.staticFiles]

\* Source.#loadPage(entry, format, dirData, dirPath): the Page of a file, or
\* none when the page has no URL.
LoadPage(entry, format) ==
    IF entry.path \in UrlFalse THEN <<>>
    ELSE <<[entry |-> entry.path, asset |-> format.pageType = "asset"]>>

\* ------------------------------------------------------------------------
\* The Source scanner: #load and #searchStaticFiles
\* ------------------------------------------------------------------------

\* The folders that have a page created with site.page().
ScopedPages == {<<"/", "s", "t">>}

\* Source.#getDirPages(path, dirData) under the build filters: the pages
\* created with site.page() for the folder; they have no file entry.
GetDirPages(cfg, dir, dirPath) ==
    IF dirPath \in ScopedPages /\ AcceptsPage(cfg, dir)
    THEN <<[entry |-> <<>>, asset |-> FALSE]>>
    ELSE <<>>

RECURSIVE Concat(_)
Concat(outs) ==
    IF outs = <<>> THEN NoOutput ELSE Both(Head(outs), Concat(Tail(outs)))

\* The static path of a folder: staticPaths.get(dir.path) ||
\* staticPaths.get(dirPath).
FolderStaticPath(cfg, dir, dirPath) ==
    IF GetStaticPath(cfg, dir.path).found THEN GetStaticPath(cfg, dir.path)
    ELSE GetStaticPath(cfg, dirPath)

\* The file branch of #searchStaticFiles for one entry.
SearchFile(cfg, entry, dirPath, copy) ==
    LET copyExplicit == FileStaticPath(cfg, entry)
    IN  IF ~copyExplicit.found /\ IsIgnored(cfg, entry) THEN NoOutput
        ELSE IF copyExplicit.found \/ copy.defined
        THEN [data |-> {}, pages |-> <<>>,
              staticFiles |->
                  <<CopyFile(entry, dirPath, copyExplicit.dest, copy)>>]
        ELSE NoOutput

RECURSIVE SearchStaticFiles(_, _, _, _)
\* Source.#searchStaticFiles(buildFilters, dir, parentPath, staticFiles, copy)
SearchStaticFiles(cfg, dir, parentPath, copy) ==
    IF RejectsEntry(cfg, dir) THEN NoOutput
    ELSE
    LET copyExplicit == GetStaticPath(cfg, dir.path)
        fc == FolderCopy(copyExplicit, Join(parentPath, dir.name), copy)
        each(entry) ==
            IF RejectsEntry(cfg, entry) THEN NoOutput
            ELSE IF entry.type = "file"
            THEN SearchFile(cfg, entry, fc.dirPath, fc.copy)
            ELSE IF HasStaticPathInside(cfg, entry)
            THEN SearchStaticFiles(cfg, entry, fc.dirPath, fc.copy)
            ELSE NoOutput
    IN  Concat([i \in 1..Len(dir.children) |-> each(dir.children[i])])

\* The file branch of #load that goes on to copy a file it loaded as a page.
LoadFile_AlsoCopiesPages(cfg, entry, dirPath, copy) ==
    LET copyExplicit == FileStaticPath(cfg, entry)
        format == Search(entry.path)
        copied == SearchFile(cfg, entry, dirPath, copy)
    IN  IF ~copyExplicit.found /\ IsIgnored(cfg, entry) THEN NoOutput
        ELSE IF format.pageType # ""
        THEN Both([data |-> {}, pages |-> IF AcceptsPage(cfg, entry)
                             THEN LoadPage(entry, format) ELSE <<>>,
                   staticFiles |-> <<>>], copied)
        ELSE copied

\* The file branch of #load that overlooks the format of a file in a copied
\* folder.
LoadFile_CopyFirst(cfg, entry, dirPath, copy) ==
    SearchFile(cfg, entry, dirPath, copy)

\* The file branch of #load for one entry.
LoadFile(cfg, entry, dirPath, copy) ==
    LET copyExplicit == FileStaticPath(cfg, entry)
        format == Search(entry.path)
    IN  IF ~copyExplicit.found /\ IsIgnored(cfg, entry) THEN NoOutput
        ELSE IF ~format.known
        THEN IF copyExplicit.found \/ copy.defined
             THEN [data |-> {}, pages |-> <<>>,
                   staticFiles |->
                       <<CopyFile(entry, dirPath, copyExplicit.dest, copy)>>]
             ELSE NoOutput
        ELSE IF format.pageType # ""
        THEN [data |-> {}, pages |-> IF AcceptsPage(cfg, entry)
                        THEN LoadPage(entry, format) ELSE <<>>,
              staticFiles |-> <<>>]
        ELSE IF format.copy # ""
        THEN [data |-> {}, pages |-> <<>>,
              staticFiles |->
                  <<CopyFile(entry, dirPath,
                             IF format.copy = "fn" THEN FnDest("f")
                             ELSE NoDest,
                             NoCopy)>>]
        ELSE NoOutput

RECURSIVE Load(_, _, _, _)
\* Source.#load(buildFilters, dir, parentPath, ..., pages, staticFiles, copy)
Load(cfg, dir, parentPath, copy) ==
    IF RejectsEntry(cfg, dir) THEN NoOutput
    ELSE
    LET dirPath == Join(parentPath, dir.name)
        copyExplicit == FolderStaticPath(cfg, dir, dirPath)
        fc == FolderCopy(copyExplicit, dirPath, copy)
        each(entry) ==
            IF RejectsEntry(cfg, entry) THEN NoOutput
            ELSE IF entry.type = "file"
            THEN LoadFile(cfg, entry, fc.dirPath, fc.copy)
            ELSE IF /\ ~copyExplicit.found
                    /\ IsIgnored(cfg, entry)
                    /\ entry.path # <<"/", ".", "w", "e", "l", "l", "-",
                                      "k", "n", "o", "w", "n">>
            THEN IF HasStaticPathInside(cfg, entry)
                 THEN SearchStaticFiles(cfg, entry, fc.dirPath, NoCopy)
                 ELSE NoOutput
            ELSE Load(cfg, entry, fc.dirPath, fc.copy)
    IN  Both([data |-> {[entry |-> dir.path, dirPath |-> dirPath]},
              pages |-> GetDirPages(cfg, dir, dirPath), staticFiles |-> <<>>],
             Concat([i \in 1..Len(dir.children) |-> each(dir.children[i])]))

\* Source.build(...buildFilters)
Build(cfg) == Load(cfg, SourceTree, <<"/">>, NoCopy)

\* ------------------------------------------------------------------------
\* The Source scanner: the calls a site makes
\* ------------------------------------------------------------------------

\* The `from` arguments of addStaticPath.
StaticFroms ==
    {<<"s", "t">>, <<"s", "t", "/">>, <<"/", "s", "t", "/", "s", "u">>,
     <<"_", "i", "n">>, <<"_", "i", "n", "/", "y", ".", "z">>,
     <<"_", "h", ".", "m">>, <<"_", "h", ".", "m", "/">>,
     <<"n", ".", "z">>, <<"n", ".", "z", "/">>,
     <<"s", "t", "/", "s", "u", "/", "_", "j">>,
     <<"/">>, <<".", ".", "/", "x">>}

\* The `to` arguments of addStaticPath: none, a path or a function.
StaticTos == {NoDest, StrDest(<<"o">>), FnDest("g")}

\* The arguments of addIgnoredPath.
IgnoredPaths == {<<"s", "t", "/", "b", ".", "z">>, <<"/", "s", "t">>}

\* The arguments of addIgnoreFilter.
IgnoreFilters == {"endsZ", "underSt"}

\* The build filters a build can be given.
BuildFilterChoices ==
    {NoBuildFilters,
     BuildFilter({<<"/", "s", "t", "/", "s", "u">>, <<"/", "n", ".", "z">>},
                 {<<"/", "i", ".", "m">>, <<"/", "s", "t">>})}

NoCall == [op |-> "none", from |-> <<>>, to |-> NoDest, threw |-> FALSE]
NotBuilt ==
    [done |-> FALSE, cfg |-> Config(<<>>, {}, {}, NoBuildFilters),
     data |-> {}, pages |-> <<>>, staticFiles |-> <<>>]

\* The map with one more entry.
MapSet(map, key, value) ==
    [k \in DOMAIN map \cup {key} |-> IF k = key THEN value ELSE map[k]]

\* The key of addStaticPath that keeps a trailing slash.
StaticKey_KeepsSlash(fromPath) == NormalizePath(fromPath)

\* normalizePath(from.replace(/\/$/, ""))
StaticKey(fromPath) == NormalizePath(StripSlash(fromPath))

\* The entry of addStaticPath(from, to).
StaticEntry(fromPath, toDest) ==
    [dest |-> IF toDest.kind = "str" THEN StrDest(NormalizePath(toDest.path)) ELSE toDest,
     dirOnly |-> EndsWith(fromPath, <<"/">>)]

\* Source.addStaticPath(from, to)
AddStaticPath(fromPath, toDest) ==
    /\ calls < MaxCalls
    /\ calls' = calls + 1
    /\ IF StartsWith(fromPath, <<".", ".", "/">>)
       THEN /\ lastCall' = [op |-> "addStaticPath", from |-> fromPath, to |-> toDest,
                            threw |-> TRUE]
            /\ UNCHANGED staticPaths
       ELSE /\ lastCall' = [op |-> "addStaticPath", from |-> fromPath, to |-> toDest,
                            threw |-> FALSE]
            /\ staticPaths' =
                   MapSet(staticPaths, StaticKey(fromPath), StaticEntry(fromPath, toDest))
    /\ UNCHANGED <<ignored, filters, buildFilters, built>>
    /\ UNCHANGED notSource

\* Source.addIgnoredPath(path)
AddIgnoredPath(path) ==
    /\ calls < MaxCalls
    /\ calls' = calls + 1
    /\ ignored' = ignored \cup {NormalizePath(path)}
    /\ lastCall' = [op |-> "addIgnoredPath", from |-> path, to |-> NoDest,
                    threw |-> FALSE]
    /\ UNCHANGED <<staticPaths, filters, buildFilters, built>>
    /\ UNCHANGED notSource

\* Source.addIgnoreFilter(filter)
AddIgnoreFilter(filter) ==
    /\ calls < MaxCalls
    /\ calls' = calls + 1
    /\ filters' = filters \cup {filter}
    /\ lastCall' = [op |-> "addIgnoreFilter", from |-> <<>>, to |-> NoDest,
                    threw |-> FALSE]
    /\ UNCHANGED <<staticPaths, ignored, buildFilters, built>>
    /\ UNCHANGED notSource

\* Source.build(...buildFilters)
DoBuild(bf) ==
    /\ ~built.done
    /\ buildFilters' = bf
    /\ LET cfg == Config(staticPaths, ignored, filters, bf)
           out == Build(cfg)
       IN  built' = [done |-> TRUE, cfg |-> cfg, data |-> out.data,
                     pages |-> out.pages,
                     staticFiles |-> out.staticFiles]
    /\ lastCall' = [op |-> "build", from |-> <<>>, to |-> NoDest,
                    threw |-> FALSE]
    /\ UNCHANGED <<staticPaths, ignored, filters, calls>>
    /\ UNCHANGED notSource

\* A new Source: nothing registered, nothing built.
SourceInit ==
    /\ staticPaths = <<>>
    /\ ignored = {}
    /\ filters = {}
    /\ calls = 0
    /\ lastCall = NoCall
    /\ buildFilters = NoBuildFilters
    /\ built = NotBuilt

SourceNext ==
    \/ \E fromPath \in StaticFroms, toDest \in StaticTos :
           AddStaticPath(fromPath, toDest)
    \/ \E path \in IgnoredPaths : AddIgnoredPath(path)
    \/ \E filter \in IgnoreFilters : AddIgnoreFilter(filter)
    \/ \E bf \in BuildFilterChoices : DoBuild(bf)

\* ------------------------------------------------------------------------
\* The Source scanner: the data cascade
\* ------------------------------------------------------------------------

\* The keys of the data that are not merged keys.
DataKeys == {"k", "basename", "url", "date", "page", "comp"}

\* A value of the data: where it comes from (the level, the depth of the
\* folder or file, and the number of the parser or _data file), or nothing.
Undefined == [level |-> "undefined", depth |-> 0, n |-> 0]
Val(level, d, n) == [level |-> level, depth |-> d, n |-> n]

\* An object with no keys.
NoData == [key \in DataKeys |-> Undefined]

\* An object with the given keys set at a level.
DataOf(keys, level, d, n) ==
    [key \in DataKeys |-> IF key \in keys THEN Val(level, d, n) ELSE Undefined]

\* Object.assign(target, source), {...target, ...source}
Assign(target, source) ==
    [key \in DataKeys |->
        IF source[key] # Undefined THEN source[key] ELSE target[key]]

RECURSIVE MergeData(_)
\* mergeData(...datas) for keys that are not merged keys: the last object
\* that has the key gives its value.
MergeData(datas) ==
    IF datas = <<>> THEN NoData
    ELSE Assign(MergeData(SubSeq(datas, 1, Len(datas) - 1)),
                datas[Len(datas)])

\* What a basename parser returns: nothing, or an object with keys and
\* maybe a basename ("none" when it sets none, "new" or "empty").
NoRes == [defined |-> FALSE, keys |-> {}, basename |-> "none"]
Res(keys, basename) == [defined |-> TRUE, keys |-> keys, basename |-> basename]

RECURSIVE RunParsers(_, _, _, _)
\* The loop of runBasenameParsers from parser i on.
RunParsers(data, parsers, i, d) ==
    IF i > Len(parsers) THEN data
    ELSE IF ~parsers[i].defined THEN RunParsers(data, parsers, i + 1, d)
    ELSE LET res ==
                 [DataOf(parsers[i].keys, "parsed", d, i) EXCEPT
                      !["basename"] =
                          IF parsers[i].basename = "none"
                          THEN Val("name", d, 0)
                          ELSE Val(parsers[i].basename, d, i)]
             assigned == Assign(data, res)
         IN  IF parsers[i].basename = "empty" THEN assigned
             ELSE RunParsers(assigned, parsers, i + 1, d)

\* runBasenameParsers(basename, basenameParsers)
RunBasenameParsers(parsers, d) ==
    RunParsers(DataOf({"basename"}, "name", d, 0), parsers, 1, d)

\* const { basename, ...parsedData } = ...
BasenameOf(parsed) == [NoData EXCEPT !["basename"] = parsed["basename"]]
RestOf(parsed) == [parsed EXCEPT !["basename"] = Undefined]

\* Source.#loadDirData(dir, parentData)
LoadDirData(parentData, parsed, scoped, dirDatas) ==
    MergeData(<<parentData, BasenameOf(parsed), scoped, RestOf(parsed)>>
              \o dirDatas)

\* Lines 177-183 of #load: the components proxy stored in the folder's data
\* when the folder has new components.
WithComponents(data, newComponents, d) ==
    IF newComponents THEN [data EXCEPT !["comp"] = Val("components", d, 0)]
    ELSE data

\* #loadPage with the scoped data over the parsers' data.
LoadPageData_ParsedFirst(dirDataOf, parsed, scoped, pageData, url, d) ==
    LET data == MergeData(<<dirDataOf, BasenameOf(parsed), RestOf(parsed),
                            scoped, pageData>>)
    IN  IF ~url THEN [kind |-> "nothing", data |-> NoData]
        ELSE [kind |-> "page",
              data |-> [data EXCEPT !["url"] = Val("getPageUrl", d, 0),
                                    !["date"] = Val("getPageDate", d, 0),
                                    !["page"] = Val("Page", d, 0)]]

\* The data of Source.#loadPage(entry, format, dirData, dirPath): nothing
\* when getPageUrl gives no URL.
LoadPageData(dirDataOf, parsed, scoped, pageData, url, d) ==
    LET data == MergeData(<<dirDataOf, BasenameOf(parsed), scoped,
                            RestOf(parsed), pageData>>)
    IN  IF ~url THEN [kind |-> "nothing", data |-> NoData]
        ELSE [kind |-> "page",
              data |-> [data EXCEPT !["url"] = Val("getPageUrl", d, 0),
                                    !["date"] = Val("getPageDate", d, 0),
                                    !["page"] = Val("Page", d, 0)]]

\* The basename parsers of a site.
ParserLists ==
    {<<>>,
     <<Res({}, "new"), Res({"k"}, "none")>>,
     <<Res({"k"}, "empty"), Res({"k"}, "new")>>}

\* The keys of the _data files and folder of a folder, in the order loaded.
DirDataKeys == {<<>>, <<{"k", "basename"}>>, <<{"k"}, {"k", "comp"}>>}

\* The keys of the data registered for a path with site.data().
ScopedDataKeys == {{}, {"k", "basename", "url"}}

\* The keys of the data a page file loads.
PageDataKeys == {{}, {"k", "basename"}, {"url", "page"}, {"k", "date"}}

NoCascadeIn ==
    [parentData |-> NoData, parsed |-> NoData, scoped |-> NoData,
     own |-> <<>>, newComponents |-> FALSE, url |-> FALSE]

\* #load goes into a folder: lines 165-186.
LoadDir(parsers, scopedKeys, dataKeys, newComponents) ==
    /\ depth < MaxDepth
    /\ LET d == depth + 1
           parsed == RunBasenameParsers(parsers, d)
           scoped == DataOf(scopedKeys, "scoped", d, 0)
           dirDatas == [i \in 1..Len(dataKeys) |->
                            DataOf(dataKeys[i], "own", d, i)]
           data == WithComponents(
                       LoadDirData(dirData, parsed, scoped, dirDatas),
                       newComponents, d)
       IN  /\ cascadeIn' = [parentData |-> dirData, parsed |-> parsed,
                            scoped |-> scoped, own |-> dirDatas,
                            newComponents |-> newComponents, url |-> TRUE]
           /\ dirData' = data
           /\ loaded' = [kind |-> "folder", data |-> data]
           /\ depth' = d
    /\ UNCHANGED notCascade

\* #load loads a page file of the folder: lines 248-259.
LoadPageFile(parsers, scopedKeys, pageKeys, url) ==
    /\ depth >= 1
    /\ LET d == depth + 1
           parsed == RunBasenameParsers(parsers, d)
           scoped == DataOf(scopedKeys, "scoped", d, 0)
           pageData == DataOf(pageKeys, "own", d, 1)
       IN  /\ cascadeIn' = [parentData |-> dirData, parsed |-> parsed,
                            scoped |-> scoped, own |-> <<pageData>>,
                            newComponents |-> FALSE, url |-> url]
           /\ loaded' = LoadPageData(dirData, parsed, scoped, pageData, url, d)
    /\ UNCHANGED <<depth, dirData>>
    /\ UNCHANGED notCascade

CascadeInit ==
    /\ depth = 0
    /\ dirData = NoData
    /\ cascadeIn = NoCascadeIn
    /\ loaded = [kind |-> "none", data |-> NoData]

CascadeNext ==
    \/ \E parsers \in ParserLists, scopedKeys \in ScopedDataKeys,
          dataKeys \in DirDataKeys, newComponents \in BOOLEAN :
           LoadDir(parsers, scopedKeys, dataKeys, newComponents)
    \/ \E parsers \in ParserLists, scopedKeys \in ScopedDataKeys,
          pageKeys \in PageDataKeys, url \in BOOLEAN :
           LoadPageFile(parsers, scopedKeys, pageKeys, url)

\* ------------------------------------------------------------------------
\* The multilanguage plugin: the split of the pages with several languages
\* ------------------------------------------------------------------------

\* How many pages the site's list has at most.
MaxLangPages == 2

\* options.languages
Languages == <<"en", "fr">>

\* The keys of the page data that hold translations in the pages below.
LangKeys == {"en", "fr", "de"}

\* The values of data.lang: undefined, a string, an array or something else.
NoLang == [kind |-> "undefined", str |-> "", arr |-> <<>>]
StrLang(s) == [kind |-> "string", str |-> s, arr |-> <<>>]
ArrLang(a) == [kind |-> "array", str |-> "", arr |-> a]
NumLang == [kind |-> "number", str |-> "", arr |-> <<>>]

\* The values of options.defaultLanguage.
DefaultLanguages == {NoLang, StrLang("en")}

\* data.id, and data[lang]: the data of one language.
NoId == [defined |-> FALSE, v |-> <<>>]
DefId(v) == [defined |-> TRUE, v |-> v]
NoOverride == [defined |-> FALSE, title |-> ""]
Override(title) == [defined |-> TRUE, title |-> title]

HtmlExt == <<".", "h", "t", "m", "l">>

\* site.options.server.page404
Page404 == "/404.html"

\* A page of the site: the object, its source path, whether its content is a
\* generator, and its data.
LangPage(oid, path, generator, outputPath, data) ==
    [oid |-> oid, src |-> [path |-> path], generator |-> generator,
     outputPath |-> outputPath, data |-> data]
LangData(lang, id, url, title, en, fr, de) ==
    [lang |-> lang, id |-> id, url |-> url, title |-> title,
     tr |-> [k \in LangKeys |->
                IF k = "en" THEN en ELSE IF k = "fr" THEN fr ELSE de]]

\* The object of an original page and of a page made by duplicate.
Original(name) == [of |-> name, dup |-> 0]
DuplicateOf(oid, j) == [of |-> oid.of, dup |-> j]

\* The pages a site can have, by name.
LangPageNames == {"a", "b", "c", "e", "n", "s", "z", "u", "w"}
LangPageOf(name, generator) ==
    LET page(outputPath, data) ==
            LangPage(Original(name), <<"/", name>>, generator, outputPath,
                     data)
        html == <<"/", name>> \o HtmlExt
    IN  CASE name = "a" ->
                page(html, LangData(NoLang, NoId, "/a/", "A",
                                    Override("A-en"), NoOverride, NoOverride))
          [] name = "b" ->
                page(html, LangData(ArrLang(<<"en", "fr">>), DefId(<<"x">>),
                                    "/b/", "B",
                                    Override("B-en"), NoOverride, NoOverride))
          [] name = "c" ->
                page(html, LangData(StrLang("fr"), NoId, "/c/", "C",
                                    Override("C-en"), Override("C-fr"),
                                    NoOverride))
          [] name = "e" ->
                page(html, LangData(ArrLang(<<"fr", "en">>), NoId, "/e/", "E",
                                    Override("E-en"), Override("E-fr"),
                                    NoOverride))
          [] name = "n" ->
                page(<<"/", "4", "0", "4">> \o HtmlExt,
                     LangData(ArrLang(<<"en", "fr">>), NoId, Page404, "N",
                              Override("N-en"), NoOverride, NoOverride))
          [] name = "s" ->
                page(<<"/", "s", ".", "c", "s", "s">>,
                     LangData(ArrLang(<<"en">>), NoId, "/s.css", "S",
                              NoOverride, NoOverride, NoOverride))
          [] name = "z" ->
                page(html, LangData(ArrLang(<<>>), NoId, "/z/", "Z",
                                    NoOverride, NoOverride, NoOverride))
          [] name = "u" ->
                page(html, LangData(NumLang, NoId, "/u/", "U",
                                    NoOverride, NoOverride, NoOverride))
          [] OTHER ->
                page(html, LangData(StrLang("de"), DefId(<<"y">>), "/w/", "W",
                                    Override("W-en"), NoOverride,
                                    Override("W-de")))

\* filter404page(page404): the data is not that of the 404 page.
IsNot404page(data) == data.url # Page404

\* The truthiness of a value of data.lang.
IsTruthy(lang) ==
    /\ lang.kind # "undefined"
    /\ lang.kind = "string" => lang.str # ""

\* overrideData(data, override): the values of `override` replace those of
\* `data`.
OverrideData(data, override) == [data EXCEPT !.title = override.title]

\* mergeTranslations that leaves the page data as it is.
MergeTranslations_Nothing(data) == data

\* mergeTranslations(data)
MergeTranslations(data) ==
    IF ~IsTruthy(data.lang) THEN data
    ELSE LET override ==
                 IF data.lang.kind = "string" /\ data.lang.str \in LangKeys
                 THEN data.tr[data.lang.str]
                 ELSE NoOverride
             cleared ==
                 [data EXCEPT !.tr = [k \in LangKeys |->
                     IF k \in Range(Languages) THEN NoOverride ELSE @[k]]]
         IN  IF override.defined THEN OverrideData(cleared, override)
             ELSE cleared

\* fixLanguage(page): the data of the page afterwards, or the throw for a
\* `lang` that is neither a string nor an array.  The warnings it logs are
\* left out.
FixLanguage(options, page) ==
    LET data == page.data
        languages == data.lang
    IN  IF languages.kind = "undefined"
        THEN [threw |-> FALSE,
              data |-> [data EXCEPT !.lang = options.defaultLanguage]]
        ELSE IF ~IsNot404page(data)
        THEN [threw |-> FALSE,
              data |-> IF languages.kind = "array"
                       THEN [data EXCEPT !.lang = options.defaultLanguage]
                       ELSE data]
        ELSE IF languages.kind = "string" THEN [threw |-> FALSE, data |-> data]
        ELSE IF languages.kind # "array" THEN [threw |-> TRUE, data |-> data]
        ELSE [threw |-> FALSE, data |-> data]

\* page.duplicate(undefined, newData): the j-th page made from `page`.
Duplicate(page, j, newData) ==
    [page EXCEPT !.oid = DuplicateOf(page.oid, j), !.data = newData]

\* pages.indexOf(page): -1 when the page is not in the list.
IndexOf(pages, oid) ==
    IF \E i \in 1..Len(pages) : pages[i].oid = oid
    THEN (CHOOSE i \in 1..Len(pages) :
              /\ pages[i].oid = oid
              /\ \A j \in 1..(i - 1) : pages[j].oid # oid) - 1
    ELSE -1

\* pages.splice(start, 1, ...items), `start` counted from 0 and from the end
\* of the list when negative.
Splice(pages, start, items) ==
    LET at == IF start < 0
              THEN (IF Len(pages) + start < 0 THEN 0 ELSE Len(pages) + start)
              ELSE (IF start > Len(pages) THEN Len(pages) ELSE start)
    IN  SubSeq(pages, 1, at) \o items \o SubSeq(pages, at + 2, Len(pages))

\* The pages one page with `languages` is split in, one per language.
NewPages(page, data, languages) ==
    [j \in 1..Len(languages.arr) |->
        Duplicate(page, j,
                  MergeTranslations(
                      [data EXCEPT !.lang = StrLang(languages.arr[j])]))]

\* The loop of the beforeRender listener from the i-th page on.
RECURSIVE BeforeRenderLoop(_, _, _)
BeforeRenderLoop(options, st, i) ==
    IF i > Len(st.pages) THEN st
    ELSE
    LET page == st.pages[i]
        languages == page.data.lang
        fixed == FixLanguage(options, page)
    IN  IF ~page.generator \/ ~EndsWith(page.outputPath, HtmlExt)
        THEN BeforeRenderLoop(options, st, i + 1)
        ELSE IF fixed.threw THEN [st EXCEPT !.threw = TRUE]
        ELSE IF languages.kind # "array"
        THEN BeforeRenderLoop(options,
                 [st EXCEPT !.pages[i].data = MergeTranslations(fixed.data)],
                 i + 1)
        ELSE BeforeRenderLoop(options,
                 [st EXCEPT !.pages[i].data = fixed.data,
                            !.newPages =
                                @ \o NewPages(page, fixed.data, languages),
                            !.removedPages = Append(@, page.oid)],
                 i + 1)

\* removedPages.forEach((page) => pages.splice(pages.indexOf(page), 1))
RECURSIVE RemovePages(_, _)
RemovePages(pages, removedPages) ==
    IF removedPages = <<>> THEN pages
    ELSE RemovePages(Splice(pages, IndexOf(pages, Head(removedPages)), <<>>),
                     Tail(removedPages))

\* The beforeRender listener: the list of pages afterwards.
BeforeRenderListener(options, pages) ==
    LET st == BeforeRenderLoop(options,
                  [pages |-> pages, newPages |-> <<>>,
                   removedPages |-> <<>>, threw |-> FALSE], 1)
    IN  IF st.threw THEN [pages |-> st.pages, threw |-> TRUE]
        ELSE [pages |-> RemovePages(st.pages \o st.newPages, st.removedPages),
              threw |-> FALSE]

\* site.preprocess([".html"], ...): the pages the preprocessor is given.
FilteredPages(pages) ==
    SelectSeq(pages, LAMBDA page : EndsWith(page.outputPath, HtmlExt))

\* The data of the page of the list that is the object `oid`.
SetData(pages, oid, data) ==
    [i \in 1..Len(pages) |->
        IF pages[i].oid = oid THEN [pages[i] EXCEPT !.data = data]
        ELSE pages[i]]

\* The loop of processMultilanguageSetup(filteredPages, allPages) from the
\* i-th page on.
RECURSIVE SetupLoop(_, _, _, _)
SetupLoop(options, filteredPages, pages, i) ==
    IF i > Len(filteredPages) THEN [pages |-> pages, threw |-> FALSE]
    ELSE
    LET page == filteredPages[i]
        fixed == FixLanguage(options, page)
        data == fixed.data
        languages == data.lang
        id == IF data.id.defined THEN data.id ELSE DefId(Tail(page.src.path))
    IN  IF fixed.threw THEN [pages |-> pages, threw |-> TRUE]
        ELSE IF languages.kind # "array"
        THEN SetupLoop(options, filteredPages,
                 SetData(pages, page.oid, MergeTranslations(data)), i + 1)
        ELSE SetupLoop(options, filteredPages,
                 Splice(pages, IndexOf(pages, page.oid),
                        NewPages(page, [data EXCEPT !.id = id], languages)),
                 i + 1)

\* The site dispatches beforeRender with its pages.
BeforeRender ==
    /\ langPc = "beforeRender"
    /\ LET out == BeforeRenderListener(langOptions, allPages)
       IN  /\ allPages' = out.pages
           /\ langPc' = IF out.threw THEN "thrown" ELSE "listened"
    /\ UNCHANGED <<langFrom, langOptions>>
    /\ UNCHANGED notLang

\* The site runs the preprocessor on its pages.
ProcessMultilanguageSetup ==
    /\ langPc = "preprocess"
    /\ LET out == SetupLoop(langOptions, FilteredPages(allPages), allPages, 1)
       IN  /\ allPages' = out.pages
           /\ langPc' = IF out.threw THEN "thrown" ELSE "preprocessed"
    /\ UNCHANGED <<langFrom, langOptions>>
    /\ UNCHANGED notLang

\* The lists of pages without repetition, up to n pages long.
RECURSIVE LangPageLists(_)
LangPageLists(n) ==
    IF n = 0 THEN {<<>>}
    ELSE LET shorter == LangPageLists(n - 1)
         IN  shorter \cup
             {Append(s, p) : s \in shorter,
                             p \in LangPageNames}

\* The site has its pages and one of the two handlers is about to run: the
\* listener on pages some of which are generators, the preprocessor on
\* rendered pages.
LangInit ==
    /\ langOptions \in [defaultLanguage : DefaultLanguages]
    /\ langPc \in {"beforeRender", "preprocess"}
    /\ \E names \in LangPageLists(MaxLangPages) :
          /\ \A i, j \in 1..Len(names) : names[i] = names[j] => i = j
          /\ \E generators \in SUBSET Range(names) :
                /\ langPc = "preprocess" => generators = {}
                /\ allPages = [i \in 1..Len(names) |->
                                  LangPageOf(names[i], names[i] \in generators)]
    /\ langFrom = allPages

LangNext == BeforeRender \/ ProcessMultilanguageSetup

\* No handler of the plugin is run.
LangIdle ==
    /\ allPages = <<>>
    /\ langFrom = <<>>
    /\ langOptions = [defaultLanguage |-> NoLang]
    /\ langPc = "idle"

\* ------------------------------------------------------------------------
\* The terser plugin: the processor of the .js files
\* ------------------------------------------------------------------------

\* How many files the processor is given at most.
MaxFiles == 3

\* What minify does with the content of a file: it returns code, returns
\* no code, or throws.
MinifyKinds == {"code", "nocode", "throws"}

\* The contents a file can have, and output.code when there is none.
Contents == {<<"x">>, <<"y">>}
NoCode == <<"undefined">>

\* A file given to the processor.
JsFile(content, minifies) == [content |-> content, minifies |-> minifies]
JsFiles == {JsFile(c, k) : c \in Contents, k \in MinifyKinds}

\* The lists of files up to n long.
RECURSIVE FileLists(_)
FileLists(n) ==
    IF n = 0 THEN {<<>>}
    ELSE LET shorter == FileLists(n - 1)
         IN  shorter \cup {Append(s, f) : s \in shorter, f \in JsFiles}

\* warnUntil(message, files.length): whether there are files.
WarnUntil(length) == length > 0

\* minify({ [filename]: content }, terserOptions)
Minify(file) ==
    CASE file.minifies = "code" ->
            [threw |-> FALSE, code |-> <<"min">> \o file.content]
      [] file.minifies = "nocode" -> [threw |-> FALSE, code |-> NoCode]
      [] OTHER -> [threw |-> TRUE, code |-> NoCode]

\* The try block of terser without its catch: the error of minify is
\* thrown on.
TerserTry_NoCatch(file) ==
    LET output == Minify(file)
    IN  IF output.threw
        THEN [threw |-> TRUE, saved |-> FALSE, logged |-> FALSE,
              content |-> file.content]
        ELSE [threw |-> FALSE, saved |-> TRUE, logged |-> FALSE,
              content |-> output.code]

\* Lines 76-100, the try block of terser(page, item) and its catch: whether
\* it throws, calls saveAsset or logs an error, and the content of the page
\* afterwards.
TerserTry(file) ==
    LET output == Minify(file)
    IN  IF output.threw
        THEN [threw |-> FALSE, saved |-> FALSE, logged |-> TRUE,
              content |-> file.content]
        ELSE [threw |-> FALSE, saved |-> TRUE, logged |-> FALSE,
              content |-> output.code]

\* processTerser(files) is called: without files it warns and returns, else
\* concurrent(files, ...) starts.
ProcessTerser ==
    /\ terserPc = "call"
    /\ IF ~WarnUntil(Len(terserFiles))
       THEN /\ terserPc' = "returned"
            /\ terserWarned' = TRUE
       ELSE /\ terserPc' = "concurrent"
            /\ UNCHANGED terserWarned
    /\ UNCHANGED <<terserFiles, terserCalls, terserContent, terserSaved,
                   terserLog>>
    /\ UNCHANGED notTerser

\* concurrent calls terser(file, item) for a file: prepareAsset, and minify
\* is awaited.
TerserCall(i) ==
    /\ terserPc = "concurrent"
    /\ terserCalls[i] = "waiting"
    /\ terserCalls' = [terserCalls EXCEPT ![i] = "minifying"]
    /\ UNCHANGED <<terserFiles, terserPc, terserContent, terserSaved,
                   terserLog, terserWarned>>
    /\ UNCHANGED notTerser

\* minify settles for a file: the rest of terser(file, item).
TerserSettle(i) ==
    /\ terserPc = "concurrent"
    /\ terserCalls[i] = "minifying"
    /\ LET out == TerserTry([terserFiles[i] EXCEPT
                                !.content = terserContent[i]])
       IN  /\ terserCalls' =
                  [terserCalls EXCEPT ![i] = IF out.threw THEN "rejected"
                                             ELSE "done"]
           /\ terserContent' = [terserContent EXCEPT ![i] = out.content]
           /\ terserSaved' = IF out.saved THEN terserSaved \cup {i}
                             ELSE terserSaved
           /\ terserLog' = IF out.logged THEN Append(terserLog, i)
                           ELSE terserLog
    /\ UNCHANGED <<terserFiles, terserPc, terserWarned>>
    /\ UNCHANGED notTerser

\* concurrent(files, ...) settles: it rejects when a call has, and resolves
\* when every call is done.
TerserReturn ==
    /\ terserPc = "concurrent"
    /\ \/ /\ \E i \in 1..Len(terserFiles) : terserCalls[i] = "rejected"
          /\ terserPc' = "thrown"
       \/ /\ \A i \in 1..Len(terserFiles) : terserCalls[i] = "done"
          /\ terserPc' = "returned"
    /\ UNCHANGED <<terserFiles, terserCalls, terserContent, terserSaved,
                   terserLog, terserWarned>>
    /\ UNCHANGED notTerser

\* The processor is about to be called on some files.
TerserInit ==
    /\ terserFiles \in FileLists(MaxFiles)
    /\ terserCalls = [i \in 1..Len(terserFiles) |-> "waiting"]
    /\ terserContent = [i \in 1..Len(terserFiles) |-> terserFiles[i].content]
    /\ terserSaved = {}
    /\ terserLog = <<>>
    /\ terserWarned = FALSE
    /\ terserPc = "call"

TerserNext ==
    \/ ProcessTerser
    \/ \E i \in 1..Len(terserFiles) : TerserCall(i)
    \/ \E i \in 1..Len(terserFiles) : TerserSettle(i)
    \/ TerserReturn

\* The processor is not called.
TerserIdle ==
    /\ terserFiles = <<>>
    /\ terserCalls = <<>>
    /\ terserContent = <<>>
    /\ terserSaved = {}
    /\ terserLog = <<>>
    /\ terserWarned = FALSE
    /\ terserPc = "idle"

\* ------------------------------------------------------------------------
\* The specifications
\* ------------------------------------------------------------------------

\* renderPages on a list of pages.
Init ==
    RenderInit /\ EngineIdle /\ LayoutIdle /\ SourceInit /\ CascadeInit /\ LangIdle
    /\ TerserIdle

Spec == Init /\ [][RenderNext]_vars

\* renderPages on a site whose pages or layouts may fail to render.
InitSite ==
    SiteInit /\ EngineIdle /\ SourceInit /\ CascadeInit /\ LangIdle
    /\ TerserIdle

SpecSite == InitSite /\ [][RenderNext]_vars

\* One call of render.
InitRender ==
    RenderIdle /\ EngineInit /\ LayoutIdle /\ SourceInit /\ CascadeInit /\ LangIdle
    /\ TerserIdle

SpecRender == InitRender /\ [][EngineNext]_vars

\* One call of #renderLayout.
InitLayout ==
    RenderIdle /\ EngineIdle /\ LayoutInit /\ SourceInit /\ CascadeInit /\ LangIdle
    /\ TerserIdle

SpecLayout == InitLayout /\ [][LayoutNext]_vars

\* The calls on a Source up to a build.
InitSource ==
    RenderIdle /\ EngineIdle /\ LayoutIdle /\ SourceInit /\ CascadeInit /\ LangIdle
    /\ TerserIdle

SpecSource == InitSource /\ [][SourceNext]_vars

\* The data cascade along one path of the walk.
InitCascade ==
    RenderIdle /\ EngineIdle /\ LayoutIdle /\ SourceInit /\ CascadeInit /\ LangIdle
    /\ TerserIdle

SpecCascade == InitCascade /\ [][CascadeNext]_vars

\* One run of a handler of the multilanguage plugin.
InitLang ==
    RenderIdle /\ EngineIdle /\ LayoutIdle /\ SourceInit /\ CascadeInit /\ LangInit
    /\ TerserIdle

SpecLang == InitLang /\ [][LangNext]_vars

\* One call of the processor of the terser plugin.
InitTerser ==
    RenderIdle /\ EngineIdle /\ LayoutIdle /\ SourceInit /\ CascadeInit /\ LangIdle
    /\ TerserInit

SpecTerser == InitTerser /\ [][TerserNext]_vars

\* ------------------------------------------------------------------------
\* Properties of Renderer.renderPages
\* ------------------------------------------------------------------------

\* The pages a generator page has produced so far.
GeneratedOf(g) == {id \in DOMAIN pageObjs : id.src = g /\ id.idx >= 0}

\* The preprocessing or the rendering of the source page q has started.
Started(q) ==
    IF IsGenerator(q) THEN q \in expanded
    ELSE pageObjs[PageId(q, -1)].preprocessed

\* The content of the source page p has been rendered: for a generator,
\* the content of every page it produced.
Completed(p) ==
    IF IsGenerator(p)
    THEN /\ p \in expanded
         /\ \A id \in GeneratedOf(p) : pageObjs[id].rendered
    ELSE pageObjs[PageId(p, -1)].rendered

\* C1: the groups are handled in ascending numeric order of renderOrder
\* (unset counting as 0): whenever the preprocessing or rendering of a page
\* q has started, the content of every page p of `from` with a smaller
\* renderOrder has been rendered.
C1_GroupsInNumericOrder ==
    \A p \in Range(from), q \in Range(from) :
        (OrderOf(p) < OrderOf(q) /\ Started(q)) => Completed(p)

\* C2: no layout is rendered, and the layout phase is not entered, until
\* the content of every page of every group has been rendered.
C2_LayoutsAfterAllContent ==
    (\/ pc \in {"layouts", "layoutRejected", "done"}
     \/ \E id \in DOMAIN pageObjs : pageObjs[id].layoutRendered)
        => /\ \A p \in Range(from) : Completed(p)
           /\ \A i \in 1..Len(to) : pageObjs[to[i]].rendered
           /\ NoMoreGroups

\* C2 witness: a layout has been rendered for a generated page of a site
\* whose pages fall into two groups.
C2_Witness ==
    /\ pc \in {"layouts", "done"}
    /\ Len(Groups) = 2
    /\ \E id \in DOMAIN pageObjs : id.idx >= 0 /\ pageObjs[id].layoutRendered
    /\ \E id \in DOMAIN pageObjs : id.idx = -1 /\ pageObjs[id].layoutRendered

\* A yielded value resolves to a URL: its url is not false and getPageUrl
\* gives a URL for it.
ResolvesToUrl(data) == data.url \notin {"false", "unresolved"}

\* The positions of `to` that hold a page produced by the generator g.
ContributedBy(g) == {i \in 1..Len(to) : to[i].src = g /\ to[i].idx >= 0}

ListedNames(te) == IF te.kind = "arr" THEN te.arr ELSE SplitComma(te.str)

\* The format a listed name stands for.
NamedFormat(name) == Formats(<<".">> \o Trim(name))

\* The engines of the formats e1, ..., en, in the listed order.
RECURSIVE ChainOf(_)
ChainOf(names) ==
    IF names = <<>> THEN <<>>
    ELSE NamedFormat(Head(names)).engines \o ChainOf(Tail(names))

\* C4: when data.templateEngine names formats that have engines, render
\* applies the engines of the formats in the listed order, each to the
\* output of the one before, and none of the file's own format: at every
\* step the content is the source followed by the engines applied so far,
\* and the result is the output of the last one.
C4_EngineChain ==
    LET te == renderIn.templateEngine
        chain == ChainOf(ListedNames(te))
    IN  (/\ renderPc \in {"loop", "returned"}
         /\ Truthy(te)
         /\ \A i \in 1..Len(ListedNames(te)) :
               NamedFormat(ListedNames(te)[i]).hasEngines)
            => /\ renderContent \o renderEngines = <<"src">> \o chain
               /\ renderPc = "returned" => renderContent = <<"src">> \o chain

\* C4 witness: render has returned for a string naming two formats, one of
\* them with two engines, for a file whose own format has another engine.
C4_Witness ==
    /\ renderPc = "returned"
    /\ renderIn.templateEngine = StrEngine(<<"t", ",", " ", "v">>)
    /\ renderIn.ext = <<".", "m">>
    /\ renderContent = <<"src", "t1", "t2", "vto">>

\* ------------------------------------------------------------------------
\* Properties of Renderer.#renderLayout
\* ------------------------------------------------------------------------

\* The layout can be resolved and rendered: its format has a loader and an
\* engine with an includes folder, its file exists, and the templateEngine
\* of the file (if any) names formats that have engines.
Resolvable(files, l) ==
    /\ l \in LayoutNames
    /\ Formats(LayoutExt(l)).loader
    /\ Formats(LayoutExt(l)).hasEngines
    /\ Formats(LayoutExt(l)).includes
    /\ files[l].exists
    /\ Truthy(files[l].templateEngine) =>
          \A i \in 1..Len(ListedNames(files[l].templateEngine)) :
             LET f == NamedFormat(ListedNames(files[l].templateEngine)[i])
             IN  f.known /\ f.hasEngines

\* The layout chain L1 -> L2 -> ... that starts at l, followed for at most
\* n layouts; "?" marks a chain that goes on after n layouts or meets a
\* layout that cannot be resolved.
RECURSIVE LayoutChain(_, _, _)
LayoutChain(files, l, n) ==
    IF l = "" THEN <<>>
    ELSE IF n = 0 \/ ~Resolvable(files, l) THEN <<"?">>
    ELSE <<l>> \o LayoutChain(files, files[l].layout, n - 1)

\* The engines that render the layout file l.
LayoutEngines(files, l) ==
    IF Truthy(files[l].templateEngine)
    THEN ChainOf(ListedNames(files[l].templateEngine))
    ELSE Formats(LayoutExt(l)).engines

\* The output of the engines for the template tpl, each engine being given
\* the output of the one before and data whose `content` is inner.
RECURSIVE EnginesOutput(_, _, _)
EnginesOutput(engines, tpl, inner) ==
    IF engines = <<>> THEN tpl
    ELSE EnginesOutput(Tail(engines),
                       EngineRender(Head(engines), tpl, TRUE, inner), inner)

\* The layouts of chain rendered innermost first around content.
RECURSIVE Composed(_, _, _)
Composed(files, chain, content) ==
    IF chain = <<>> THEN content
    ELSE Composed(files, Tail(chain),
                  EnginesOutput(LayoutEngines(files, Head(chain)),
                                <<Head(chain)>>, content))

\* C5: for a page whose layout chain L1 -> ... -> Ln ends (Ln names no
\* layout, every Li can be resolved), the loop renders L1 around the page's
\* content and each next layout around the output of the one before, never
\* throws, and returns Ln's output after exactly n renders.
C5_NestedLayouts ==
    LET chain == LayoutChain(layoutFiles, layoutIn, Cardinality(LayoutNames))
    IN  (layoutSt.status # "idle" /\ "?" \notin Range(chain)) =>
           /\ layoutSt.status \in {"loop", "done", "returned"}
           /\ layoutSt.renders <= Len(chain)
           /\ layoutSt.content =
                 Composed(layoutFiles, SubSeq(chain, 1, layoutSt.renders),
                          <<"page">>)
           /\ layoutSt.status \in {"done", "returned"} =>
                 layoutSt.renders = Len(chain)

\* C5 witness: the call has returned for a page with a chain of three
\* layouts, the second of a format with two engines.
C5_Witness ==
    /\ layoutSt.status = "returned"
    /\ layoutIn = "L1"
    /\ layoutFiles["L1"].layout = "L2"
    /\ layoutFiles["L2"].layout = "L3"
    /\ layoutSt.renders = 3
    /\ layoutFiles["L2"].templateEngine = NoTemplateEngine
    /\ layoutFiles["L3"].templateEngine = NoTemplateEngine
    /\ LET inner == <<"L1", "vto", "(", "page", ")">>
           middle == <<"L2", "t1", "(">> \o inner \o <<")", "t2", "(">>
                        \o inner \o <<")">>
       IN  layoutSt.content = <<"L3", "md", "(">> \o middle \o <<")">>

\* ------------------------------------------------------------------------
\* Properties of the Source scanner
\* ------------------------------------------------------------------------

RECURSIVE EntriesOf(_)
\* The entry and every entry below it.
EntriesOf(entry) ==
    {entry} \cup UNION {EntriesOf(entry.children[i]) :
                            i \in 1..Len(entry.children)}

FileEntries == {e \in EntriesOf(SourceTree) : e.type = "file"}
FolderEntries == {e \in EntriesOf(SourceTree) : e.type = "directory"}

\* The entry e lies below the folder d.
Under(d, e) ==
    /\ d.type = "directory"
    /\ d.path # e.path
    /\ \/ d.path = <<"/">>
       \/ StartsWith(e.path, d.path \o <<"/">>)

\* How many pages and static files the last build returned for an entry.
PagesOf(e) ==
    Cardinality({i \in 1..Len(built.pages) : built.pages[i].entry = e.path})
StaticsOf(e) ==
    Cardinality({i \in 1..Len(built.staticFiles) :
                     built.staticFiles[i].entry = e.path})

\* The entry is one the site ignores: by its name, by an ignored path or by
\* an ignore filter.
Ignorable(cfg, e) ==
    \/ e.name # <<>> /\ Head(e.name) \in {".", "_"}
    \/ e.path \in cfg.ignored
    \/ \E f \in cfg.filters : FilterMatches(f, e.path)

\* The entry's own path was given to addStaticPath without a trailing slash.
CopiedByItsPath(cfg, e) ==
    /\ e.path \in DOMAIN cfg.staticPaths
    /\ ~cfg.staticPaths[e.path].dirOnly

\* C7: a build gives every file entry one outcome at most: one Page (only
\* when its format has a pageType, and an asset exactly when the pageType
\* is "asset"), or one StaticFile, or nothing.
C7_OneOutcomePerFile ==
    built.done =>
        \A f \in FileEntries :
            /\ PagesOf(f) + StaticsOf(f) <= 1
            /\ \A i \in 1..Len(built.pages) :
                   built.pages[i].entry = f.path =>
                       /\ Search(f.path).pageType # ""
                       /\ built.pages[i].asset
                              = (Search(f.path).pageType = "asset")

\* A build with a copied folder that returned a page, an asset page and a
\* static file, and nothing for other files.
C7_Witness ==
    /\ built.done
    /\ <<"/", "s", "t">> \in DOMAIN built.cfg.staticPaths
    /\ \E i \in 1..Len(built.pages) :
           built.pages[i].entry = <<"/", "s", "t", "/", "a", ".", "m">>
           /\ ~built.pages[i].asset
    /\ \E i \in 1..Len(built.pages) :
           built.pages[i].entry
               = <<"/", "s", "t", "/", "s", "u", "/", "e", ".", "c">>
           /\ built.pages[i].asset
    /\ \E i \in 1..Len(built.staticFiles) :
           built.staticFiles[i].entry = <<"/", "s", "t", "/", "b", ".", "z">>
    /\ \E f \in FileEntries : PagesOf(f) + StaticsOf(f) = 0

\* C8: an ignored file (name starting with "." or "_", path added with
\* addIgnoredPath, or path matching an ignore filter) yields no Page and no
\* StaticFile, unless its own path was given to addStaticPath without a
\* trailing slash.
C8_IgnoredFilesYieldNothing ==
    built.done =>
        \A f \in FileEntries :
            (Ignorable(built.cfg, f) /\ ~CopiedByItsPath(built.cfg, f)) =>
                PagesOf(f) = 0 /\ StaticsOf(f) = 0

\* A build that copied a folder and its other files but not the ignored
\* file in it, while an ignored file registered by its own path was emitted.
C8_Witness ==
    /\ built.done
    /\ <<"/", "s", "t">> \in DOMAIN built.cfg.staticPaths
    /\ \E f \in FileEntries :
           /\ f.path = <<"/", "s", "t", "/", "b", ".", "z">>
           /\ StaticsOf(f) = 1
    /\ \E f \in FileEntries :
           /\ f.path = <<"/", "s", "t", "/", "_", "q", ".", "z">>
           /\ PagesOf(f) + StaticsOf(f) = 0
    /\ \E f \in FileEntries :
           /\ Ignorable(built.cfg, f)
           /\ CopiedByItsPath(built.cfg, f)
           /\ PagesOf(f) + StaticsOf(f) = 1

\* The folder was given to addStaticPath without a destination.
CopiedFolder(cfg, d) ==
    /\ d.path \in DOMAIN cfg.staticPaths
    /\ cfg.staticPaths[d.path].dest = NoDest

Walked(cfg, e) ==
    /\ ~RejectsEntry(cfg, e)
    /\ e.path = <<"/">> \/ ~Ignorable(cfg, e)

\* The folder is loaded: the build walks it and every folder above it.
LoadedFolder(cfg, d) ==
    /\ Walked(cfg, d)
    /\ \A x \in FolderEntries : Under(x, d) => Walked(cfg, x)

\* The folder is ignored, has a static path and is reached from a loaded
\* parent that has no static path.
SearchedFolder(cfg, d) ==
    /\ d.path # <<"/">>
    /\ Ignorable(cfg, d)
    /\ ~RejectsEntry(cfg, d)
    /\ \A x \in FolderEntries :
           Under(x, d) =>
               /\ LoadedFolder(cfg, x)
               /\ x.path \notin DOMAIN cfg.staticPaths

\* The build walks every folder between the folder d and the entry e.
WalkedBetween(cfg, d, e) ==
    \A x \in FolderEntries : (Under(d, x) /\ Under(x, e)) => Walked(cfg, x)

\* Directly in the folder.
ChildOf(d, e) == \E i \in 1..Len(d.children) : d.children[i].path = e.path

C10_Outside(fromPath) ==
    /\ Len(fromPath) >= 3
    /\ fromPath[1] = "." /\ fromPath[2] = "." /\ fromPath[3] = "/"

\* The key the claim gives a static path: `from` without its trailing
\* slash, made absolute.
C10_Key(fromPath) ==
    LET bare == IF fromPath # <<>> /\ fromPath[Len(fromPath)] = "/"
                THEN SubSeq(fromPath, 1, Len(fromPath) - 1)
                ELSE fromPath
    IN  IF bare # <<>> /\ bare[1] = "/" THEN bare ELSE <<"/">> \o bare

\* What a build returns for the file entry under a configuration.
OutcomeOf(cfg, f) ==
    LET out == Build(cfg)
    IN  [pages |-> SelectSeq(out.pages, LAMBDA x : x.entry = f.path),
         staticFiles |->
             SelectSeq(out.staticFiles, LAMBDA x : x.entry = f.path)]

\* The configuration without the static path of the key.
WithoutStaticPath(cfg, key) ==
    [cfg EXCEPT !.staticPaths =
         [k \in DOMAIN cfg.staticPaths \ {key} |-> cfg.staticPaths[k]]]

\* C10: addStaticPath with a `from` that starts with "../" throws and leaves
\* staticPaths as it was; with any other `from` it stores one entry under
\* the normalized path without trailing slash, dirOnly exactly when `from`
\* ends with "/", every other entry kept; and a build gives a file whose
\* path has a dirOnly entry what it gives the file without that entry.
C10_AddStaticPath ==
    /\ [][(lastCall'.op = "addStaticPath" /\ calls' # calls) =>
             IF C10_Outside(lastCall'.from)
             THEN lastCall'.threw /\ staticPaths' = staticPaths
             ELSE LET key == C10_Key(lastCall'.from)
                  IN  /\ ~lastCall'.threw
                      /\ DOMAIN staticPaths' = DOMAIN staticPaths \cup {key}
                      /\ key = <<"/">> \/ key[Len(key)] # "/"
                      /\ staticPaths'[key].dirOnly
                             = (lastCall'.from[Len(lastCall'.from)] = "/")
                      /\ \A k \in DOMAIN staticPaths \ {key} :
                             staticPaths'[k] = staticPaths[k]]_vars
    /\ [](built.done =>
             \A f \in FileEntries :
                 (/\ f.path \in DOMAIN built.cfg.staticPaths
                  /\ built.cfg.staticPaths[f.path].dirOnly) =>
                     OutcomeOf(built.cfg, f)
                         = OutcomeOf(WithoutStaticPath(built.cfg, f.path), f))

\* addStaticPath("n.z/") stored a dirOnly entry under "/n.z", a later
\* addStaticPath("../x") threw, and the build did not copy the file /n.z.
C10_Witness ==
    /\ built.done
    /\ lastCall.op = "addStaticPath" /\ lastCall.threw
    /\ <<"/", "n", ".", "z">> \in DOMAIN built.cfg.staticPaths
    /\ built.cfg.staticPaths[<<"/", "n", ".", "z">>].dirOnly
    /\ built.cfg.staticPaths = staticPaths
    /\ \A i \in 1..Len(built.staticFiles) :
           built.staticFiles[i].entry # <<"/", "n", ".", "z">>

\* ------------------------------------------------------------------------
\* Properties of the data cascade
\* ------------------------------------------------------------------------

\* The value of the most specific level that has the key; the levels go
\* from the least specific to the most specific.
MostSpecific(levels, key) ==
    LET having == {i \in 1..Len(levels) : levels[i][key] # Undefined}
    IN  IF having = {} THEN Undefined
        ELSE levels[CHOOSE i \in having : \A other \in having : other <= i][key]

\* The levels of the last load, the least specific first: the data of the
\* folder above, the basename the parsers leave, the data registered for
\* the path, the other data of the parsers, and the own data (the page's
\* loaded data, or the folder's _data files in the order loaded).
CascadeLevels ==
    <<cascadeIn.parentData,
      [key \in DataKeys |-> IF key = "basename" THEN cascadeIn.parsed[key]
                            ELSE Undefined],
      cascadeIn.scoped,
      [key \in DataKeys |-> IF key = "basename" THEN Undefined
                            ELSE cascadeIn.parsed[key]]>>
    \o cascadeIn.own

\* C6 as stated: every key of the data of a page or a folder has the value
\* of the most specific level that has it: own data, then the parsers' data,
\* then the data registered for the path, then the basename, then the data
\* of the folder above.
C6_CascadePrecedence ==
    loaded.kind \in {"page", "folder"} =>
        \A key \in DataKeys :
            loaded.data[key] = MostSpecific(CascadeLevels, key)

\* The keys that the load sets after the merge: url, date and page of a
\* page, the components variable of a folder that has new components.
SetAfterMerge ==
    IF loaded.kind = "page" THEN {"url", "date", "page"}
    ELSE IF cascadeIn.newComponents THEN {"comp"}
    ELSE {}

\* C6 as amended: the precedence holds for every key except url, date and
\* page of a page, which #loadPage sets after the merge, and the components
\* variable of a folder with new components, which #load sets after it.
C6_CascadePrecedenceOfMergedData ==
    loaded.kind \in {"page", "folder"} =>
        /\ \A key \in DataKeys \ SetAfterMerge :
               loaded.data[key] = MostSpecific(CascadeLevels, key)
        /\ \A key \in SetAfterMerge :
               loaded.data[key].level
                   \in {"getPageUrl", "getPageDate", "Page", "components"}

\* A page in a folder below the root whose k comes from the parsers, over
\* the registered data and the folder's data, whose basename comes from the
\* registered data, over the parsers' basename, and whose url is the one
\* getPageUrl gives, not the registered one.
C6_Witness ==
    /\ loaded.kind = "page"
    /\ depth = MaxDepth
    /\ cascadeIn.own[1]["k"] = Undefined
    /\ cascadeIn.parsed["k"] # Undefined
    /\ cascadeIn.scoped["k"] # Undefined
    /\ cascadeIn.parentData["k"] # Undefined
    /\ loaded.data["k"] = cascadeIn.parsed["k"]
    /\ cascadeIn.parsed["basename"].level = "empty"
    /\ loaded.data["basename"] = cascadeIn.scoped["basename"]
    /\ cascadeIn.scoped["url"] # Undefined
    /\ loaded.data["url"] = Val("getPageUrl", depth + 1, 0)
    /\ loaded.data["comp"] = Val("components", 1, 0)

\* ------------------------------------------------------------------------
\* Properties of the build filters
\* ------------------------------------------------------------------------

\* Some build filter returns false for the entry.
FilterRejects(cfg, e) ==
    cfg.buildFilters.any /\ e.path \in cfg.buildFilters.rejectEntry

\* Some build filter returns false for the entry together with its page.
FilterRejectsPage(cfg, e) ==
    /\ cfg.buildFilters.any
    /\ e.path \in cfg.buildFilters.rejectEntry \cup cfg.buildFilters.rejectPage

\* The entries whose folder data the last build stored.
StoredData == {d.entry : d \in built.data}

\* C11: a build returns no Page and no StaticFile for an entry some build
\* filter rejects, nor for any entry below a rejected folder, and stores no
\* data for a rejected folder or a folder below it; it returns a Page of a
\* file, or of a folder's site.page(), only if the filters accept the entry
\* with the page.
C11_BuildFilters ==
    built.done =>
        /\ \A e \in EntriesOf(SourceTree) :
               FilterRejects(built.cfg, e) =>
                   \A x \in EntriesOf(SourceTree) :
                       (x = e \/ Under(e, x)) =>
                           /\ PagesOf(x) = 0
                           /\ StaticsOf(x) = 0
                           /\ x.path \notin StoredData
        /\ \A f \in FileEntries :
               PagesOf(f) > 0 => ~FilterRejectsPage(built.cfg, f)
        /\ (\E i \in 1..Len(built.pages) : built.pages[i].entry = <<>>) =>
               \A d \in FolderEntries :
                   d.path \in ScopedPages => ~FilterRejectsPage(built.cfg, d)

\* A build with a filter that rejects the folder /st/su, the file /n.z and
\* the pages of /i.m and /st, after addStaticPath of /st and of /n.z: the
\* file /st/b.z was copied and the data of /st stored, while nothing came
\* from /st/su and /n.z, and no page from /i.m or the site.page() of /st.
C11_Witness ==
    /\ built.done
    /\ built.cfg.buildFilters.any
    /\ {<<"/", "s", "t">>, <<"/", "n", ".", "z">>}
           \subseteq DOMAIN built.cfg.staticPaths
    /\ <<"/", "s", "t">> \in StoredData
    /\ <<"/", "s", "t", "/", "s", "u">> \notin StoredData
    /\ \E i \in 1..Len(built.staticFiles) :
           built.staticFiles[i].entry = <<"/", "s", "t", "/", "b", ".", "z">>
    /\ \A i \in 1..Len(built.staticFiles) :
           built.staticFiles[i].entry
               \notin {<<"/", "n", ".", "z">>,
                       <<"/", "s", "t", "/", "s", "u", "/", "c", ".", "z">>}
    /\ \A i \in 1..Len(built.pages) :
           built.pages[i].entry \notin {<<>>, <<"/", "i", ".", "m">>}
    /\ \E i \in 1..Len(built.pages) :
           built.pages[i].entry = <<"/", "s", "t", "/", "a", ".", "m">>

\* ------------------------------------------------------------------------
\* Properties of the steps of a group
\* ------------------------------------------------------------------------

\* The pages of `from` in the group of the source page p.
GroupOf(p) == {q \in Range(from) : OrderOf(q) = OrderOf(p)}

\* The regular pages of the group being handled, in the order of `from`.
RegularOfGroup ==
    SelectSeq(from, LAMBDA q : q \in Range(Groups[gi]) /\ ~IsGenerator(q))

\* The last n elements of a sequence.
LastOf(s, n) == SubSeq(s, Len(s) - n + 1, Len(s))

\* C12: every page is preprocessed before its content is rendered, and no
\* generator page is ever preprocessed or appended to `to`; while the
\* generators of a group are expanded, the group's regular pages have been
\* preprocessed and are the last pages of `to`, and no generated page is
\* preprocessed or in `to` yet; the content of a page of the group is
\* rendered only when every generator of the group has been expanded and
\* the generated pages, preprocessed, follow the regular ones at the end of
\* `to`.
C12_StepsOfAGroup ==
    /\ \A id \in DOMAIN pageObjs :
          pageObjs[id].rendered => pageObjs[id].preprocessed
    /\ \A id \in DOMAIN pageObjs :
          (id.idx = -1 /\ IsGenerator(id.src)) =>
              /\ ~pageObjs[id].preprocessed
              /\ ~pageObjs[id].rendered
              /\ id \notin Range(to)
    /\ pc = "generators" =>
          /\ Len(to) >= Len(RegularOfGroup)
          /\ LastOf(to, Len(RegularOfGroup)) =
                [i \in 1..Len(RegularOfGroup) |-> PageId(RegularOfGroup[i], -1)]
          /\ \A i \in 1..Len(RegularOfGroup) :
                /\ pageObjs[PageId(RegularOfGroup[i], -1)].preprocessed
                /\ ~pageObjs[PageId(RegularOfGroup[i], -1)].rendered
          /\ \A g \in Range(Groups[gi]) : \A id \in GeneratedOf(g) :
                /\ ~pageObjs[id].preprocessed
                /\ ~pageObjs[id].rendered
                /\ id \notin Range(to)
    /\ \A id \in DOMAIN pageObjs :
          pageObjs[id].rendered =>
              \A g \in GroupOf(id.src) :
                  IsGenerator(g) =>
                      /\ g \in expanded
                      /\ \A n \in GeneratedOf(g) :
                            /\ pageObjs[n].preprocessed
                            /\ \E i \in 1..Len(to) :
                                  /\ to[i] = n
                                  /\ \A q \in GroupOf(id.src) :
                                        ~IsGenerator(q) =>
                                           \E j \in 1..(i - 1) :
                                               to[j] = PageId(q, -1)

\* A group with a regular page and a generator: the content of the regular
\* page and of a generated page has been rendered, the generated page after
\* the regular one in `to`.
C12_Witness ==
    /\ pc = "render"
    /\ \E i \in 1..Len(to), j \in 1..Len(to) :
          /\ i < j
          /\ to[i].idx = -1 /\ to[j].idx >= 0
          /\ OrderOf(to[i].src) = OrderOf(to[j].src)
          /\ pageObjs[to[i]].rendered
          /\ pageObjs[to[j]].rendered

\* ------------------------------------------------------------------------
\* Properties of the pages renderPages leaves
\* ------------------------------------------------------------------------

\* The content render() gives a page without a templateEngine: the page's
\* content followed by the names of the engines of the page's format when
\* that is a page format, the content itself otherwise.
ContentOf(id) ==
    pageObjs[id].source \o
        (IF Formats(PageExt(id.src)).isPage
         THEN Formats(PageExt(id.src)).engines ELSE <<>>)

\* The page has a layout or an output path ending in ".html".
HasLayoutOrHtml(id) == pageObjs[id].layout # "" \/ pageObjs[id].html

\* C13: when renderPages has resolved, every page of `to` with a layout or
\* an ".html" output path has data.children equal to its rendered content
\* and page.content equal to the layouts of its chain rendered around the
\* children (the children themselves when it has no layout); every other
\* page has page.content equal to its rendered content and no
\* data.children; and at no time has such a page data.children or a layout
\* rendered.
C13_ChildrenAndContent ==
    /\ pc = "done" =>
          \A i \in 1..Len(to) :
             LET id == to[i]
                 page == pageObjs[id]
             IN  IF HasLayoutOrHtml(id)
                 THEN /\ page.hasChildren
                      /\ page.children = ContentOf(id)
                      /\ page.hasContent
                      /\ page.layoutRendered
                      /\ page.content =
                            Composed(layoutFiles,
                                     LayoutChain(layoutFiles, page.layout,
                                                 Cardinality(LayoutNames)),
                                     ContentOf(id))
                      /\ page.layout = "" => page.content = page.children
                 ELSE /\ page.hasContent
                      /\ page.content = ContentOf(id)
    /\ \A id \in DOMAIN pageObjs :
          ~HasLayoutOrHtml(id) =>
              /\ ~pageObjs[id].hasChildren
              /\ ~pageObjs[id].layoutRendered
              /\ id \notin Range(renderedPages)

\* renderPages has resolved for a site with an ".html" page without a
\* layout, a ".css" page with a layout and a ".css" page without one.
C13_Witness ==
    /\ pc = "done"
    /\ \E id \in Range(to) :
          /\ pageObjs[id].html /\ pageObjs[id].layout = ""
          /\ pageObjs[id].content = <<"a", "md">>
    /\ \E id \in Range(to) :
          /\ ~pageObjs[id].html /\ pageObjs[id].layout = "L2"
          /\ pageObjs[id].layoutRendered
    /\ \E id \in Range(to) :
          /\ ~pageObjs[id].html /\ pageObjs[id].layout = ""
          /\ pageObjs[id].content = <<"b", "yield", "js">>

\* ------------------------------------------------------------------------
\* Properties of the data of a layout render
\* ------------------------------------------------------------------------

\* The value of `k` of the first of the layouts that sets it.
RECURSIVE FirstK(_)
FirstK(layouts) ==
    IF layouts = <<>> THEN ""
    ELSE IF LayoutK(Head(layouts)) # "" THEN LayoutK(Head(layouts))
    ELSE FirstK(Tail(layouts))

\* C14: after each layout render of a call of #renderLayout, the data the
\* layout was rendered with has for the key `k` the page's value, else the
\* value of the innermost rendered layout that sets it; its `content` is
\* the output of the step before (the page's rendered content for the first
\* layout); its `layout` and `templateEngine` are the layout file's own,
\* and the engines that rendered the layout are those of the file's own
\* templateEngine or format, whatever the page or an inner layout set.
C14_LayoutData ==
    (layoutSt.status \in {"loop", "done", "returned"} /\ layoutSt.renders > 0)
        => LET done == layoutSt.rendered
               last == done[Len(done)]
               inner == Composed(layoutFiles, SubSeq(done, 1, Len(done) - 1),
                                 <<"page">>)
           IN  /\ Len(done) = layoutSt.renders
               /\ layoutSt.data.k =
                     IF layoutSt.page.k # "" THEN layoutSt.page.k
                     ELSE FirstK(done)
               /\ layoutSt.data.content = inner
               /\ layoutSt.data.layout = layoutFiles[last].layout
               /\ layoutSt.data.templateEngine =
                     layoutFiles[last].templateEngine
               /\ layoutSt.content =
                     EnginesOutput(LayoutEngines(layoutFiles, last),
                                   <<last>>, inner)

\* The call has returned for a page with a templateEngine and no `k`, and
\* the layout chain L3 -> L1 -> L2: `k` is L1's, the data's content is the
\* output of L1, and L2 was rendered by the two engines of its format.
C14_Witness ==
    /\ layoutSt.status = "returned"
    /\ layoutSt.page.templateEngine = StrEngine(<<"m">>)
    /\ layoutSt.page.k = ""
    /\ layoutSt.rendered = <<"L3", "L1", "L2">>
    /\ layoutSt.data.k = "L1"
    /\ \A l \in LayoutNames : layoutFiles[l].templateEngine = NoTemplateEngine
    /\ LET first == <<"L3", "md", "(", "page", ")">>
           second == <<"L1", "vto", "(">> \o first \o <<")">>
       IN  /\ layoutSt.data.content = second
           /\ layoutSt.content =
                 <<"L2", "t1", "(">> \o second \o <<")", "t2", "(">>
                     \o second \o <<")">>

\* ------------------------------------------------------------------------
\* Properties of the layout of a generated page
\* ------------------------------------------------------------------------

\* The value the generator page yielded for the generated page id.
YieldOf(id) == yielded[id.src][id.idx + 1]

\* C15: a generated page whose output path does not end in ".html" and
\* whose yielded value sets no layout has no layout, is never put in
\* renderedPages and never has a layout rendered, whatever layout the
\* generator page has; a generated page whose yielded value sets a layout
\* has that layout, whatever its output path.
C15_GeneratedNonHtml ==
    \A id \in DOMAIN pageObjs :
        id.idx >= 0 =>
            /\ (YieldOf(id).url # "html" /\ YieldOf(id).layout = "") =>
                  /\ pageObjs[id].layout = ""
                  /\ ~pageObjs[id].hasChildren
                  /\ ~pageObjs[id].layoutRendered
                  /\ id \notin Range(renderedPages)
            /\ YieldOf(id).layout # "" =>
                  pageObjs[id].layout = YieldOf(id).layout

\* renderPages has resolved after a generator page with the layout L1
\* yielded two ".css" pages, one without a layout and one with the layout
\* L2: the first has its rendered content and no layout rendered, the second
\* was rendered in L2.
C15_Witness ==
    /\ pc = "done"
    /\ \E g \in Range(from) :
          /\ IsGenerator(g)
          /\ pageObjs[PageId(g, -1)].layout = "L1"
          /\ yielded[g] = <<[url |-> "css", layout |-> ""],
                            [url |-> "css", layout |-> "L2"]>>
          /\ pageObjs[PageId(g, 0)].hasContent
          /\ pageObjs[PageId(g, 0)].content = <<g, "yield", "js">>
          /\ ~pageObjs[PageId(g, 0)].layoutRendered
          /\ pageObjs[PageId(g, 1)].layoutRendered
          /\ pageObjs[PageId(g, 1)].content =
                <<"L2", "t1", "(", g, "yield", "js", ")",
                  "t2", "(", g, "yield", "js", ")">>

\* ------------------------------------------------------------------------
\* Properties of render without a templateEngine
\* ------------------------------------------------------------------------

\* C16: when data.templateEngine is not set (or is the empty string),
\* render never throws; for a layout, or a file whose format is a page
\* format, it applies the engines of the file's format, in their order;
\* for any other file it applies no engine and returns the content as it
\* was given.
C16_FormatEngines ==
    (~Truthy(renderIn.templateEngine) /\ renderPc # "idle") =>
        LET format == Formats(renderIn.ext)
        IN  /\ renderPc # "thrown"
            /\ renderPc # "call" =>
                  IF renderIn.isLayout \/ format.isPage
                  THEN /\ renderContent \o renderEngines =
                             <<"src">> \o format.engines
                       /\ renderPc = "returned" => renderEngines = <<>>
                  ELSE /\ renderContent = <<"src">>
                       /\ renderEngines = <<>>
                       /\ renderPc = "returned"

\* render has returned the content unchanged for a file of the asset format
\* .c, which has an engine, called without a templateEngine and not as a
\* layout.
C16_Witness ==
    /\ renderPc = "returned"
    /\ renderIn.templateEngine = NoTemplateEngine
    /\ renderIn.ext = <<".", "c">>
    /\ ~renderIn.isLayout
    /\ Formats(renderIn.ext).engines = <<"css">>
    /\ renderContent = <<"src">>

\* ------------------------------------------------------------------------
\* Properties of the failures of renderPages
\* ------------------------------------------------------------------------

\* render throws for the content of the page: its templateEngine names a
\* format that has no engines.
ContentFails(id) ==
    /\ Truthy(pageObjs[id].templateEngine)
    /\ \E i \in 1..Len(ListedNames(pageObjs[id].templateEngine)) :
          ~NamedFormat(ListedNames(pageObjs[id].templateEngine)[i]).hasEngines

\* The step renders the content of a page and the render fails: a
\* generator page is expanded, or the content callback of a page finishes.
ContentFailure ==
    \/ \E g \in expanded' \ expanded : ContentFails(PageId(g, -1))
    \/ /\ pc \in {"render", "rejected"}
       /\ \E id \in pending \ pending' : ContentFails(id)

\* C17: a step in which the render of the content of a page fails leaves
\* renderPages rejected with the error 'Error rendering the page:
\* <sourcePath>' of a page whose content fails to render, the original
\* error as its cause; and once renderPages has rejected so, the layout
\* phase is never started and no page has had a layout rendered.
C17_ContentFailureIsWrapped ==
    /\ [][ContentFailure =>
             /\ pc' = "rejected"
             /\ rejection'.message = "page"
             /\ rejection'.cause
             /\ rejection'.sourcePath \in DOMAIN pageObjs
             /\ ContentFails(rejection'.sourcePath)]_vars
    /\ [](pc = "rejected" =>
             \A id \in DOMAIN pageObjs : ~pageObjs[id].layoutRendered)
    /\ [][pc = "rejected" => pc' = "rejected"]_vars

\* The layout l cannot be resolved: its format is unknown or has no
\* loader, the first engine of the format has no includes folder, or the
\* layout's file does not exist.
Unresolved(files, l) ==
    \/ ~Formats(LayoutExt(l)).known
    \/ ~Formats(LayoutExt(l)).loader
    \/ ~Formats(LayoutExt(l)).includes
    \/ ~files[l].exists

\* Some layout of the chain that starts at l, of at most n layouts, cannot
\* be resolved.
RECURSIVE ChainUnresolved(_, _, _)
ChainUnresolved(files, l, n) ==
    /\ l # ""
    /\ n > 0
    /\ \/ Unresolved(files, l)
       \/ ChainUnresolved(files, files[l].layout, n - 1)

\* The layout chain of the page id has a layout that cannot be resolved.
LayoutUnresolved(id) ==
    ChainUnresolved(layoutFiles, pageObjs[id].layout, Cardinality(LayoutNames))

\* C18: a page whose layout chain has a layout that cannot be resolved
\* never has page.content assigned nor a layout rendered; the step in which
\* its layout callback finishes leaves renderPages rejected with the error
\* 'Error rendering the layout of the page <sourcePath>' and the original
\* error as cause (the error of that page, if none was raised before); and
\* renderPages, once rejected so, never resolves.
C18_LayoutFailure ==
    /\ [](\A id \in Range(renderedPages) :
             LayoutUnresolved(id) =>
                 /\ ~pageObjs[id].hasContent
                 /\ ~pageObjs[id].layoutRendered)
    /\ [][(/\ pc \in {"layouts", "layoutRejected"}
           /\ \E id \in pending \ pending' : LayoutUnresolved(id))
             => /\ pc' = "layoutRejected"
                /\ rejection'.message = "layout"
                /\ rejection'.cause
                /\ pc = "layouts" =>
                      /\ rejection'.sourcePath \in pending \ pending'
                      /\ LayoutUnresolved(rejection'.sourcePath)]_vars
    /\ [][pc = "layoutRejected" =>
             pc' = "layoutRejected" /\ rejection' = rejection]_vars

\* renderPages has rejected with the layout error of the page c, whose
\* layout L1 names the layout L2 that has no file, after the layout of the
\* page a was rendered: c has no content.
C18_Witness ==
    /\ pc = "layoutRejected"
    /\ pending = {}
    /\ from = <<"a", "c">>
    /\ rejection = Rejection("layout", PageId("c", -1), TRUE)
    /\ pageObjs[PageId("c", -1)].layout = "L1"
    /\ layoutFiles["L1"].exists
    /\ layoutFiles["L1"].layout = "L2"
    /\ ~layoutFiles["L2"].exists
    /\ ~pageObjs[PageId("c", -1)].hasContent
    /\ pageObjs[PageId("a", -1)].layoutRendered

\* ------------------------------------------------------------------------
\* Properties of the end of the layout loop
\* ------------------------------------------------------------------------

\* C19: a call of #renderLayout renders each layout file at most once,
\* whatever `layout` the layout files declare, so that the loop ends after
\* at most as many renders as there are layout files.
C19_EachLayoutOnce ==
    layoutSt.status # "idle" =>
        /\ \A i \in 1..Len(layoutSt.rendered), j \in 1..Len(layoutSt.rendered) :
              layoutSt.rendered[i] = layoutSt.rendered[j] => i = j
        /\ layoutSt.renders <= Cardinality(LayoutNames)

\* ------------------------------------------------------------------------
\* Properties of the fan-out
\* ------------------------------------------------------------------------

\* The callbacks that finish in the step.
Finishing == pending \ pending'

\* C20: under every interleaving of the callbacks, a content callback runs
\* only for a page whose content was not rendered before and a layout
\* callback only for a page whose layout was not; no page is twice in
\* renderedPages; a group is left, and renderPages resolves, only when no
\* callback is pending, every page of the groups handled having its content
\* rendered and, at the end, every page of renderedPages its layout; and
\* the content each page ends with is the same whatever the order in which
\* the callbacks ran.
C20_FanOutAndWait ==
    /\ [][\A id \in Finishing :
             /\ pc = "render" => ~pageObjs[id].rendered /\ pageObjs'[id].rendered
             /\ pc = "layouts" =>
                   ~pageObjs[id].layoutRendered /\ pageObjs'[id].layoutRendered
             /\ Cardinality(Finishing) = 1]_vars
    /\ [](\A i \in 1..Len(renderedPages), j \in 1..Len(renderedPages) :
             renderedPages[i] = renderedPages[j] => i = j)
    /\ [](pc \in {"loop", "layouts", "done"} =>
             \A i \in 1..Len(to) : pageObjs[to[i]].rendered)
    /\ [](pc \in {"loop", "done"} => pending = {})
    /\ [](pc = "done" =>
             /\ \A id \in Range(renderedPages) : pageObjs[id].layoutRendered
             /\ \A id \in Range(to) :
                   /\ pageObjs[id].hasContent
                   /\ pageObjs[id].content =
                         IF HasLayoutOrHtml(id)
                         THEN Composed(layoutFiles,
                                       LayoutChain(layoutFiles,
                                                   pageObjs[id].layout,
                                                   Cardinality(LayoutNames)),
                                       ContentOf(id))
                         ELSE ContentOf(id))

\* renderPages has resolved for a group of three pages (a regular page and
\* two generated ones) whose content callbacks finished in an order other
\* than that of `to`, each page with its content.
C20_Witness ==
    /\ pc = "done"
    /\ Len(to) = 3
    /\ Len(Groups) = 1
    /\ Len(renderedPages) = 3
    /\ renderedPages # to
    /\ \A id \in Range(to) : pageObjs[id].hasContent

\* ------------------------------------------------------------------------
\* Properties of `to` when renderPages rejects
\* ------------------------------------------------------------------------

\* The index of the group of the source page p among the groups as the
\* loop takes them.
GroupIndex(p) == CHOOSE j \in 1..Len(Groups) : p \in Range(Groups[j])

\* The regular pages of the groups 1..k, and the pages generated so far by
\* the generators of the groups 1..k.
RegularUpTo(k) ==
    {PageId(p, -1) : p \in {q \in Range(from) :
                               ~IsGenerator(q) /\ GroupIndex(q) <= k}}
GeneratedUpTo(k) ==
    {id \in DOMAIN pageObjs : id.idx >= 0 /\ GroupIndex(id.src) <= k}

\* C21 as stated: when renderPages has rejected while handling the group
\* k, `to` holds the regular pages and the generated pages of the groups
\* 1..k and no page of a later group.
C21_ToHoldsGroupsUpToFailure ==
    pc = "rejected" =>
        /\ RegularUpTo(gi) \subseteq Range(to)
        /\ GeneratedUpTo(gi) \subseteq Range(to)
        /\ \A i \in 1..Len(to) : GroupIndex(to[i].src) <= gi

\* C21, amended: `from` is never changed; when renderPages has rejected
\* while handling the group k because a content callback failed, `to` holds
\* the regular and the generated pages of the groups 1..k; when it has
\* rejected because the render of a generator page of the group k failed,
\* `to` holds the regular pages of the groups 1..k and the generated pages
\* of the groups 1..k-1 only; in both cases `to` holds no page of a later
\* group.
C21_ToAtFailure ==
    /\ [][from' = from]_vars
    /\ [](pc = "rejected" =>
             /\ RegularUpTo(gi) \subseteq Range(to)
             /\ \A i \in 1..Len(to) : GroupIndex(to[i].src) <= gi
             /\ rejection.message = "page" =>
                   GeneratedUpTo(gi) \subseteq Range(to)
             /\ rejection.message = "raw" =>
                   /\ GeneratedUpTo(gi - 1) \subseteq Range(to)
                   /\ \A i \in 1..Len(to) :
                         to[i].idx >= 0 => GroupIndex(to[i].src) < gi)

\* renderPages has rejected in a group of two generators: the first was
\* expanded into a page and the render of the second failed, and the
\* generated page is not in `to`.
C21_Witness ==
    /\ pc = "rejected"
    /\ rejection.message = "raw"
    /\ from = <<"d", "b">>
    /\ Len(Groups) = 1
    /\ PageId("d", 0) \in DOMAIN pageObjs
    /\ PageId("d", 0) \notin Range(to)
    /\ to = <<>>

\* ------------------------------------------------------------------------
\* Properties of the ignored folders
\* ------------------------------------------------------------------------

\* The folder is an ignored one: not the root, ignored by its name, by an
\* ignored path or by an ignore filter, and not /.well-known.
IgnoredFolder(cfg, d) ==
    /\ d.type = "directory"
    /\ d.path # <<"/">>
    /\ Ignorable(cfg, d)
    /\ d.path # <<"/", ".", "w", "e", "l", "l", "-", "k", "n", "o", "w", "n">>

\* C22 as stated: a build returns no Page for a file below an ignored
\* folder, /.well-known apart, and a StaticFile for such a file only when a
\* registered static path starts with the folder's path.
C22_NoPageFromIgnoredFolder ==
    built.done =>
        \A d \in FolderEntries :
            IgnoredFolder(built.cfg, d) =>
                \A f \in FileEntries :
                    Under(d, f) =>
                        /\ PagesOf(f) = 0
                        /\ StaticsOf(f) > 0 =>
                              \E path \in DOMAIN built.cfg.staticPaths :
                                  StartsWith(path, d.path)

\* The folder that contains `d` has been loaded and has a registered static
\* path, under its own path or under the path it is copied to: #load then
\* loads its folders without asking whether they are ignored.
InFolderWithStaticPath(cfg, d) ==
    \E p \in FolderEntries :
        /\ ChildOf(p, d)
        /\ \E x \in built.data :
              /\ x.entry = p.path
              /\ \/ GetStaticPath(cfg, p.path).found
                 \/ GetStaticPath(cfg, x.dirPath).found

\* C22: a build returns no Page for a file below an ignored folder, unless
\* the folder that contains the ignored folder has a registered static path,
\* /.well-known apart; the files below such an ignored folder become
\* StaticFiles at most, and only when a registered static path starts with
\* the folder's path.
C22_IgnoredFolders ==
    built.done =>
        \A d \in FolderEntries :
            IgnoredFolder(built.cfg, d) /\ ~InFolderWithStaticPath(built.cfg, d) =>
                \A f \in FileEntries :
                    Under(d, f) =>
                        /\ PagesOf(f) = 0
                        /\ StaticsOf(f) > 0 =>
                              \E path \in DOMAIN built.cfg.staticPaths :
                                  StartsWith(path, d.path)

\* A build with an ignored folder that is searched for static files: one of
\* its files is copied and its page file gives no page.
C22_Witness ==
    /\ built.done
    /\ \E d \in FolderEntries :
          /\ IgnoredFolder(built.cfg, d)
          /\ ~InFolderWithStaticPath(built.cfg, d)
          /\ \E f, g \in FileEntries :
                /\ Under(d, f) /\ Under(d, g)
                /\ StaticsOf(f) > 0
                /\ g.path = <<"/", "_", "i", "n", "/", "x", ".", "m">>
                /\ PagesOf(g) = 0

\* ------------------------------------------------------------------------
\* Properties of the multilanguage plugin
\* ------------------------------------------------------------------------

\* The pages of the list made from the page `name`, in the order of the list.
PagesFrom(name) == SelectSeq(allPages, LAMBDA page : page.oid.of = name)

\* The names of the pages a list becomes when the pages named in `split`
\* are replaced, where they are, by one page per language.
RECURSIVE SplitInPlace(_, _)
SplitInPlace(pages, split) ==
    IF pages = <<>> THEN <<>>
    ELSE LET page == Head(pages)
         IN  (IF page.oid.of \in split
              THEN [j \in 1..Len(page.data.lang.arr) |-> page.oid.of]
              ELSE <<page.oid.of>>)
             \o SplitInPlace(Tail(pages), split)

\* The data of the page is that of `page` in the language `lang`: the
\* translations of `lang` are merged in and those of the languages are gone.
TranslatedTo(data, page, lang) ==
    /\ data.lang = StrLang(lang)
    /\ data.title = IF lang \in LangKeys /\ page.data.tr[lang].defined
                    THEN page.data.tr[lang].title
                    ELSE page.data.title
    /\ \A k \in Range(Languages) : ~data.tr[k].defined
    /\ data.url = page.data.url

\* A handler has ended: the pages that IsSplit have been replaced by one
\* duplicate per language, in the order of the array, and the other pages
\* with a string or no `lang` are single; in the preprocessor the
\* duplicates are where the page was and have its id or its source path.
Splitting(IsSplit(_)) ==
    langPc \in {"listened", "preprocessed"} =>
        /\ \A i \in 1..Len(langFrom) :
              LET page == langFrom[i]
                  made == PagesFrom(page.oid.of)
              IN  /\ IsSplit(page) =>
                        /\ Len(made) = Len(page.data.lang.arr)
                        /\ \A j \in 1..Len(made) :
                              /\ made[j].oid = DuplicateOf(page.oid, j)
                              /\ TranslatedTo(made[j].data, page,
                                              page.data.lang.arr[j])
                              /\ langPc = "preprocessed" =>
                                    made[j].data.id =
                                        IF page.data.id.defined
                                        THEN page.data.id
                                        ELSE DefId(Tail(page.src.path))
                  /\ page.data.lang.kind \in {"string", "undefined"} =>
                        /\ Len(made) = 1
                        /\ made[1].oid = page.oid
        /\ langPc = "preprocessed" =>
              [i \in 1..Len(allPages) |-> allPages[i].oid.of] =
                  SplitInPlace(langFrom,
                      {langFrom[i].oid.of : i \in
                          {k \in 1..Len(langFrom) : IsSplit(langFrom[k])}})

\* The listener handles the generator pages, the preprocessor every page.
Handled(page) == langPc = "listened" => page.generator

IsSplitPage(page) ==
    /\ page.data.lang.kind = "array"
    /\ Handled(page)
    /\ EndsWith(page.outputPath, HtmlExt)
    /\ langPc = "preprocessed" => page.data.url # Page404

MinifyThrows(i) == terserFiles[i].minifies = "throws"

\* C24: the processor never throws; a file whose minification throws keeps
\* its content and is never saved, and when the processor has returned an
\* error is logged for it and every other file is saved with the output of
\* minify; without files the processor calls nothing and returns.
C24_TerserIsolatesFailures ==
    /\ terserPc # "thrown"
    /\ \A i \in 1..Len(terserFiles) :
          /\ terserCalls[i] # "rejected"
          /\ MinifyThrows(i) =>
                /\ terserContent[i] = terserFiles[i].content
                /\ i \notin terserSaved
    /\ terserPc = "returned" =>
          \A i \in 1..Len(terserFiles) :
              IF MinifyThrows(i)
              THEN Len(SelectSeq(terserLog, LAMBDA j : j = i)) = 1
              ELSE /\ i \in terserSaved
                   /\ i \notin Range(terserLog)
                   /\ terserContent[i] =
                          IF terserFiles[i].minifies = "code"
                          THEN <<"min">> \o terserFiles[i].content
                          ELSE NoCode
    /\ terserFiles = <<>> =>
          /\ terserPc \in {"call", "returned"}
          /\ terserSaved = {}
          /\ terserLog = <<>>

\* The processor has returned after minify threw for the first of three
\* files, whose call settled first, and the other two files are saved.
C24_Witness ==
    /\ terserPc = "returned"
    /\ Len(terserFiles) = 3
    /\ MinifyThrows(1) /\ ~MinifyThrows(2) /\ ~MinifyThrows(3)
    /\ terserLog = <<1>>
    /\ terserSaved = {2, 3}
    /\ terserContent[1] = terserFiles[1].content
    /\ terserContent[2] # terserFiles[2].content

====
